---- MODULE Spec2Model ----
(***************************************************************************)
(* A model of the TableFilter widget of src/src/table-filter.js and of the *)
(* sort component src/src/components/SortTable.js: the row cache, the      *)
(* search parser, the filter / sort / pagination engine and the URL codec. *)
(*                                                                         *)
(* Text is modelled character by character: a string is a sequence of      *)
(* one-character strings, so that trimming, lowercasing, splitting,        *)
(* substring search, URL encoding and number formatting are computed as    *)
(* the code computes them.  Column indices are 0-based as in the source;   *)
(* sequences are 1-based, so column c of a row is cells[c + 1].            *)
(*                                                                         *)
(* A local value that is used more than once is passed as the parameter of *)
(* a local operator (LET With(v) == ... IN With(e)), so that its           *)
(* definition is evaluated, and counted by TLC's coverage, exactly once.   *)
(***************************************************************************)
EXTENDS Integers, Sequences, FiniteSets, TLC

(***************************************************************************)
(* Characters and strings                                                  *)
(***************************************************************************)

UpperChars == <<"A","B","C","D","E","F","G","H","I","J","K","L","M",
                "N","O","P","Q","R","S","T","U","V","W","X","Y","Z">>

LowerChars == <<"a","b","c","d","e","f","g","h","i","j","k","l","m",
                "n","o","p","q","r","s","t","u","v","w","x","y","z">>

DigitChars == <<"0","1","2","3","4","5","6","7","8","9">>

\* The position of x in the sequence s from position i on, 0 when absent.
RECURSIVE IndexFrom(_, _, _)
IndexFrom(s, x, i) ==
    IF i > Len(s) THEN 0
    ELSE IF s[i] = x THEN i
    ELSE IndexFrom(s, x, i + 1)

\* Array.prototype.indexOf + 1: the first position of x in s, 0 when absent.
IndexOf(s, x) == IndexFrom(s, x, 1)

\* Array.prototype.includes
Includes(s, x) == \E i \in 1..Len(s) : s[i] = x

\* String.prototype.toLowerCase on one character.
LowerChar(ch) ==
    LET At(i) == IF i > 0 THEN LowerChars[i] ELSE ch
    IN  At(IndexFrom(UpperChars, ch, 1))

\* String.prototype.toLowerCase.
ToLowerCase(s) == [i \in 1..Len(s) |-> LowerChar(s[i])]

\* The regular-expression class \s, restricted to the characters of the model.
IsSpace(ch) == ch = " "

\* The regular-expression class \d.
IsDigit(ch) == \E i \in 1..Len(DigitChars) : DigitChars[i] = ch

\* String.prototype.trimStart and trimEnd.
RECURSIVE TrimStart(_)
TrimStart(s) ==
    IF s # <<>> /\ IsSpace(Head(s)) THEN TrimStart(Tail(s)) ELSE s

RECURSIVE TrimEnd(_)
TrimEnd(s) ==
    IF s # <<>> /\ IsSpace(s[Len(s)]) THEN TrimEnd(SubSeq(s, 1, Len(s) - 1)) ELSE s

\* String.prototype.trim.
Trim(s) == TrimEnd(TrimStart(s))

\* Does t occur in s starting at position i?
StartsAt(s, t, i) ==
    /\ i >= 1
    /\ i + Len(t) - 1 <= Len(s)
    /\ \A k \in 1..Len(t) : s[i + k - 1] = t[k]

\* String.prototype.includes: t is a substring of s.
StrIncludes(s, t) == \E i \in 1..(Len(s) + 1) : StartsAt(s, t, i)

\* String.prototype.split(/\s+/): the maximal runs of non-space characters,
\* with an empty first or last piece when the string starts or ends with a space.
RECURSIVE SplitSpaces(_, _, _)
SplitSpaces(s, i, cur) ==
    IF i > Len(s) THEN <<cur>>
    ELSE IF IsSpace(s[i])
         THEN IF i > 1 /\ IsSpace(s[i - 1])
              THEN SplitSpaces(s, i + 1, cur)
              ELSE <<cur>> \o SplitSpaces(s, i + 1, <<>>)
         ELSE SplitSpaces(s, i + 1, Append(cur, s[i]))

\* text.replace(/\s+/g, " "): every run of whitespace becomes one space.
RECURSIVE CollapseSpaces(_, _)
CollapseSpaces(s, i) ==
    IF i > Len(s) THEN <<>>
    ELSE IF IsSpace(s[i])
         THEN IF i > 1 /\ IsSpace(s[i - 1])
              THEN CollapseSpaces(s, i + 1)
              ELSE <<" ">> \o CollapseSpaces(s, i + 1)
         ELSE <<s[i]>> \o CollapseSpaces(s, i + 1)

\* String.prototype.split(ch) for a one-character separator.
RECURSIVE SplitChar(_, _, _, _)
SplitChar(s, ch, i, cur) ==
    IF i > Len(s) THEN <<cur>>
    ELSE IF s[i] = ch THEN <<cur>> \o SplitChar(s, ch, i + 1, <<>>)
    ELSE SplitChar(s, ch, i + 1, Append(cur, s[i]))

\* Array.prototype.join for an array of strings.
RECURSIVE Join(_, _)
Join(parts, sep) ==
    IF parts = <<>> THEN <<>>
    ELSE IF Len(parts) = 1 THEN parts[1]
    ELSE parts[1] \o sep \o Join(Tail(parts), sep)

\* The set of elements of a sequence.
Range(s) == {s[i] : i \in 1..Len(s)}

\* Array.prototype.filter for an array of strings or arrays, keeping the
\* non-empty ones.
NonEmpty(seq) == SelectSeq(seq, LAMBDA t : Len(t) > 0)

\* Number.prototype.toString for an integer.
RECURSIVE NatToString(_)
NatToString(n) ==
    IF n < 10 THEN <<DigitChars[n + 1]>>
    ELSE NatToString(n \div 10) \o <<DigitChars[(n % 10) + 1]>>

IntToString(n) == IF n < 0 THEN <<"-">> \o NatToString(0 - n) ELSE NatToString(n)

\* Math.min, Math.max and Math.ceil(a / b) for a >= 0 and b > 0.
Min(a, b) == IF a < b THEN a ELSE b

Max(a, b) == IF a > b THEN a ELSE b

Ceil(a, b) == (a + b - 1) \div b

(***************************************************************************)
(* Nullable values, numbers and comparison                                 *)
(***************************************************************************)

\* JavaScript null for a nullable number or string: the empty tuple; a present
\* number n is <<n>>, a present (non-empty) string is the string itself.
Null == <<>>

Some(v) == <<v>>

\* The value NaN that parseInt returns when no digits can be read.
NaN == Null

\* The digits read from position i of s on, as a number, starting from acc.
RECURSIVE ReadDigits(_, _, _)
ReadDigits(s, i, acc) ==
    IF i <= Len(s) /\ IsDigit(s[i])
    THEN ReadDigits(s, i + 1, acc * 10 + (IndexFrom(DigitChars, s[i], 1) - 1))
    ELSE acc

\* parseInt(s, 10) and, on strings without "." and exponent, parseFloat(s):
\* leading whitespace is skipped, an optional sign is read, then the longest run
\* of digits; anything after it is ignored; NaN when there is no digit.
ParseInt(s) ==
    LET DigitsAt(t, d, sign) ==
            IF d > Len(t) \/ ~IsDigit(t[d]) THEN NaN
            ELSE Some(sign * ReadDigits(t, d, 0))
        Signed(t) ==
            IF t # <<>> /\ t[1] \in {"-", "+"}
            THEN DigitsAt(t, 2, IF t[1] = "-" THEN -1 ELSE 1)
            ELSE DigitsAt(t, 1, 1)
    IN  Signed(TrimStart(s))

\* parseNumericValue: strip every character outside [0-9.-], then parseFloat.
\* The model's cell texts hold no ".", so the value read is an integer.
parseNumericValue(text) ==
    ParseInt(SelectSeq(text, LAMBDA ch : IsDigit(ch) \/ ch \in {".", "-"}))

\* The collation order of String.prototype.localeCompare (root locale) on the
\* characters of the model: whitespace, punctuation, digits, then letters with
\* case as a tie-break (lowercase first).
CollationOrder ==
    <<" ", "_", "-", ",", ".", "\"", "/", "&", "%", "+", "=", "?">>
        \o DigitChars \o LowerChars

PrimaryKey(ch) == IndexFrom(CollationOrder, LowerChar(ch), 1)

RECURSIVE ComparePrimary(_, _, _)
ComparePrimary(a, b, i) ==
    IF i > Len(a) /\ i > Len(b) THEN 0
    ELSE IF i > Len(a) THEN -1
    ELSE IF i > Len(b) THEN 1
    ELSE LET Keys(ka, kb) ==
                 IF ka < kb THEN -1
                 ELSE IF ka > kb THEN 1
                 ELSE ComparePrimary(a, b, i + 1)
         IN  Keys(PrimaryKey(a[i]), PrimaryKey(b[i]))

RECURSIVE CompareCase(_, _, _)
CompareCase(a, b, i) ==
    IF i > Len(a) THEN 0
    ELSE IF a[i] = b[i] THEN CompareCase(a, b, i + 1)
    ELSE IF LowerChar(a[i]) = a[i] THEN -1
    ELSE 1

\* a.localeCompare(b): negative, zero or positive.
localeCompare(a, b) ==
    LET Primary(p) == IF p # 0 THEN p ELSE CompareCase(a, b, 1)
    IN  Primary(ComparePrimary(a, b, 1))

\* Array.prototype.sort with comparator cmp(a, b) (negative: a first): a stable
\* insertion sort, which is what a stable sort yields for a consistent comparator.
\* m[i][j] holds cmp(s[i], s[j]); the sort works on the positions of s.
RECURSIVE InsertSorted(_, _, _)
InsertSorted(sorted, e, m) ==
    IF sorted = <<>> THEN <<e>>
    ELSE IF m[sorted[Len(sorted)]][e] > 0
         THEN Append(InsertSorted(SubSeq(sorted, 1, Len(sorted) - 1), e, m),
                     sorted[Len(sorted)])
         ELSE Append(sorted, e)

RECURSIVE SortFrom(_, _, _)
SortFrom(i, acc, m) ==
    IF i > Len(m) THEN acc
    ELSE SortFrom(i + 1, InsertSorted(acc, i, m), m)

ArraySort(s, cmp(_, _)) ==
    LET Ordered(order) == [k \in 1..Len(s) |-> s[order[k]]]
    IN  Ordered(SortFrom(1, <<>>,
            [i \in 1..Len(s) |-> [j \in 1..Len(s) |-> cmp(s[i], s[j])]]))

\* Array.from(new Set(...)): the distinct elements in order of first occurrence.
RECURSIVE Unique(_, _)
Unique(s, acc) ==
    IF s = <<>> THEN acc
    ELSE Unique(Tail(s), IF Includes(acc, Head(s)) THEN acc ELSE Append(acc, Head(s)))

(***************************************************************************)
(* Search term parser (parseSearchTerms)                                   *)
(***************************************************************************)

\* The placeholder `__PHRASE_${n}__` that stands for the n-th quoted phrase.
Placeholder(n) ==
    <<"_","_","P","H","R","A","S","E","_">> \o NatToString(n) \o <<"_","_">>

\* trimmed.replace(/"([^"]+)"/g, ...): scanning from position i with the
\* phrases found so far, every quoted non-empty run of non-quote characters is
\* replaced by its placeholder and its lowercased text is recorded.  An empty
\* pair of quotes does not match, and the scan goes on at its second quote.
RECURSIVE ExtractPhrases(_, _, _, _)
ExtractPhrases(s, i, processed, phrases) ==
    IF i > Len(s) THEN [processed |-> processed, phrases |-> phrases]
    ELSE LET Closing(j) ==
                 IF s[i] = "\"" /\ j > i + 1
                 THEN ExtractPhrases(s, j + 1,
                          processed \o Placeholder(Len(phrases)),
                          Append(phrases, ToLowerCase(SubSeq(s, i + 1, j - 1))))
                 ELSE ExtractPhrases(s, i + 1, Append(processed, s[i]), phrases)
         IN  Closing(IndexFrom(s, "\"", i + 1))

\* The first position >= i of s that holds no whitespace (Len(s) + 1 if none).
RECURSIVE SkipSpaces(_, _)
SkipSpaces(s, i) ==
    IF i <= Len(s) /\ IsSpace(s[i]) THEN SkipSpaces(s, i + 1) ELSE i

\* Does /\s+and\s+/i match at position i of s?  The result is the position
\* after the match, 0 when there is no match.
MatchAnd(s, i) ==
    LET Word(j) ==
            IF /\ j > i
               /\ j + 3 <= Len(s)
               /\ ToLowerCase(SubSeq(s, j, j + 2)) = <<"a","n","d">>
               /\ IsSpace(s[j + 3])
            THEN SkipSpaces(s, j + 3)
            ELSE 0
    IN  Word(SkipSpaces(s, i))

\* processed.split(/\s+and\s+/i)
RECURSIVE SplitAnd(_, _, _)
SplitAnd(s, i, cur) ==
    IF i > Len(s) THEN <<cur>>
    ELSE LET Matched(k) ==
                 IF k > 0
                 THEN <<cur>> \o SplitAnd(s, k, <<>>)
                 ELSE SplitAnd(s, i + 1, Append(cur, s[i]))
         IN  Matched(MatchAnd(s, i))

\* Restore a placeholder to its phrase, lowercase any other term:
\* placeholders.indexOf(term) is the first phrase whose placeholder is the term.
RestoreTerm(term, phrases) ==
    LET At(phraseIndex) ==
            IF phraseIndex > 0 THEN phrases[phraseIndex] ELSE ToLowerCase(term)
    IN  At(IndexFrom([k \in 1..Len(phrases) |-> Placeholder(k - 1)], term, 1))

\* One AND part: split on whitespace, drop empty terms, restore or lowercase.
OrTerms(part, phrases) ==
    LET Restored(terms) == [k \in 1..Len(terms) |-> RestoreTerm(terms[k], phrases)]
    IN  Restored(NonEmpty(SplitSpaces(part, 1, <<>>)))

\* The AND groups of the text left after the phrases were extracted.
AndGroups(processed, phrases) ==
    LET Groups(andParts) ==
            NonEmpty([k \in 1..Len(andParts) |-> OrTerms(andParts[k], phrases)])
    IN  Groups(SplitAnd(processed, 1, <<>>))

parseSearchTerms(input) ==
    LET Extracted(ex) ==
            [andGroups    |-> AndGroups(ex.processed, ex.phrases),
             exactPhrases |-> ex.phrases]
        Trimmed(trimmed) ==
            IF trimmed = <<>>
            THEN [andGroups |-> <<>>, exactPhrases |-> <<>>]
            ELSE Extracted(ExtractPhrases(trimmed, 1, <<>>, <<>>))
    IN  Trimmed(Trim(input))

(***************************************************************************)
(* Date normalizer (processDateCell, convertToISODate)                     *)
(***************************************************************************)

\* The separator class [\/ \-\.] of the two date patterns.
IsDateSeparator(ch) == ch \in {"/", " ", "-", "."}

\* The first position >= i of s that holds no digit.
RECURSIVE SkipDigits(_, _)
SkipDigits(s, i) ==
    IF i <= Len(s) /\ IsDigit(s[i]) THEN SkipDigits(s, i + 1) ELSE i

\* String.prototype.padStart(2, "0")
PadStart2(s) == IF Len(s) < 2 THEN <<"0">> \o s ELSE s

\* ^(\d{..})[\/ \-\.](\d{..})[\/ \-\.](\d{..})$ with the group lengths drawn from
\* n1, n2 and n3: the three groups, or <<>> when the string does not match.
MatchDate(s, n1, n2, n3) ==
    LET Groups(e1, e2, e3) ==
            IF /\ (e1 - 1) \in n1
               /\ e1 <= Len(s) /\ IsDateSeparator(s[e1])
               /\ (e2 - e1 - 1) \in n2
               /\ e2 <= Len(s) /\ IsDateSeparator(s[e2])
               /\ (e3 - e2 - 1) \in n3
               /\ e3 = Len(s) + 1
            THEN <<SubSeq(s, 1, e1 - 1), SubSeq(s, e1 + 1, e2 - 1), SubSeq(s, e2 + 1, e3 - 1)>>
            ELSE <<>>
        Third(e1, e2) == Groups(e1, e2, SkipDigits(s, e2 + 1))
        Second(e1)    == Third(e1, SkipDigits(s, e1 + 1))
    IN  Second(SkipDigits(s, 1))

\* new Date(dateStr) for a string neither pattern matches.  The date texts of
\* the model's tables are either matched by a pattern or are words that no
\* engine parses as a date, for which the fallback yields no date.
DateFallback(dateStr) == Null

\* A conversion that pads the three groups and keeps them in the order they
\* are written in.
convertToISODateAsWritten(input) ==
    LET Padded(groups) ==
            IF groups = <<>> THEN Null
            ELSE PadStart2(groups[1]) \o <<"-">> \o PadStart2(groups[2])
                                      \o <<"-">> \o PadStart2(groups[3])
        Matched(dateStr, dmyMatch) ==
            IF dmyMatch # <<>> THEN Padded(dmyMatch)
            ELSE Padded(MatchDate(dateStr, {4}, {1, 2}, {1, 2}))
        Trimmed(dateStr) == Matched(dateStr, MatchDate(dateStr, {1, 2}, {1, 2}, {4}))
    IN  Trimmed(Trim(input))

convertToISODate(input) ==
    LET IsoPattern(dateStr, isoMatch) ==
            IF isoMatch # <<>>
            THEN isoMatch[1] \o <<"-">> \o PadStart2(isoMatch[2])
                             \o <<"-">> \o PadStart2(isoMatch[3])
            ELSE DateFallback(dateStr)
        DmyPattern(dateStr, dmyMatch) ==
            IF dmyMatch # <<>>
            THEN dmyMatch[3] \o <<"-">> \o PadStart2(dmyMatch[2])
                             \o <<"-">> \o PadStart2(dmyMatch[1])
            ELSE IsoPattern(dateStr, MatchDate(dateStr, {4}, {1, 2}, {1, 2}))
        Trimmed(dateStr) == DmyPattern(dateStr, MatchDate(dateStr, {1, 2}, {1, 2}, {4}))
    IN  Trimmed(Trim(input))

\* processDateCell for a cell without markup: the first line is the cell's
\* trimmed text.  Null when the text is empty or is no date.
processDateCell(raw) ==
    LET Converted(textContent, isoDate) ==
            IF isoDate = Null THEN Null
            ELSE [originalText |-> textContent, isoDate |-> isoDate]
        FirstLine(textContent) ==
            IF textContent = <<>> THEN Null
            ELSE Converted(textContent, convertToISODate(textContent))
    IN  FirstLine(Trim(raw))

(***************************************************************************)
(* Row cache builder (cacheTableData, precomputeColumnValues)              *)
(***************************************************************************)

\* The indices (0-based) of the header cells whose text contains "date".
DetectDateColumns(headers) ==
    {c \in 0..(Len(headers) - 1) :
        StrIncludes(ToLowerCase(headers[c + 1]), <<"d","a","t","e">>)}

\* The cached data of one cell from the text content of its td element.
CellData(raw, colIndex, dateColumns) ==
    LET Cell(text, dateValue) ==
            [text         |-> text,
             lowerText    |-> ToLowerCase(text),
             numericValue |-> parseNumericValue(text),
             dateValue    |-> dateValue]
        Dated(processedDate) ==
            IF processedDate # Null
            THEN Cell(processedDate.originalText, processedDate.isoDate)
            ELSE Cell(CollapseSpaces(Trim(raw), 1), Null)
    IN  Dated(IF colIndex \in dateColumns THEN processDateCell(raw) ELSE Null)

\* The cached data of the row at position rowIndex (0-based) of the tbody.
RowData(tds, rowIndex, dateColumns) ==
    LET Row(cellData, fullText) ==
            [originalIndex |-> rowIndex,
             cells         |-> cellData,
             fullText      |-> fullText,
             fullTextLower |-> ToLowerCase(fullText)]
        Cells(cellData) ==
            Row(cellData, Join([k \in 1..Len(cellData) |-> cellData[k].text], <<" ">>))
    IN  Cells([k \in 1..Len(tds) |-> CellData(tds[k], k - 1, dateColumns)])

\* The comparator of the dropdown values: numeric when parseInt reads a number
\* from both values, localeCompare otherwise.
CompareColumnValues(a, b) ==
    LET Numbers(aNum, bNum) ==
            IF aNum # NaN /\ bNum # NaN THEN aNum[1] - bNum[1] ELSE localeCompare(a, b)
    IN  Numbers(ParseInt(a), ParseInt(b))

\* The sorted distinct non-empty cell texts of column colIndex.
UniqueColumnValues(rowData, colIndex) ==
    LET Texts(having) == [k \in 1..Len(having) |-> having[k].cells[colIndex + 1].text]
    IN  ArraySort(Unique(NonEmpty(Texts(
                      SelectSeq(rowData, LAMBDA r : Len(r.cells) > colIndex))), <<>>),
                  CompareColumnValues)

precomputeColumnValues(rowData, columnCount) ==
    [c \in 0..(columnCount - 1) |-> UniqueColumnValues(rowData, c)]

\* The cache after cacheTableData.  Without a tbody the method returns before
\* reading the header, so the cache keeps the constructor's empty values.
cacheTableData(config) ==
    LET Cached(headers, dateColumns, rowData) ==
            [tbody           |-> TRUE,
             thead           |-> config.hasThead,
             columnCount     |-> Len(headers),
             dateColumns     |-> dateColumns,
             rowData         |-> rowData,
             filteredRowData |-> <<>>,
             columnValues    |-> precomputeColumnValues(rowData, Len(headers))]
        Rows(headers, dateColumns) ==
            Cached(headers, dateColumns,
                   [k \in 1..Len(config.rows) |-> RowData(config.rows[k], k - 1, dateColumns)])
        Header(headers) == Rows(headers, DetectDateColumns(headers))
    IN  IF ~config.hasTbody
        THEN [tbody           |-> FALSE,
              thead           |-> config.hasThead,
              columnCount     |-> 0,
              dateColumns     |-> {},
              rowData         |-> <<>>,
              filteredRowData |-> <<>>,
              columnValues    |-> <<>>]
        ELSE Header(IF config.hasThead THEN config.headers ELSE <<>>)

(***************************************************************************)
(* Sort engine (performSort of SortTable.js)                               *)
(***************************************************************************)

\* sortState.direction: "asc", "desc" or, for JavaScript null, NoDirection.
NoDirection == "none"

\* A comparator that takes a pair in a date column with an undated cell for
\* equal instead of comparing its numbers or texts.
CompareRowsDatedOnly(a, b, columnIndex, direction, dateColumns) ==
    LET Directed(comparison) == IF direction = "asc" THEN comparison ELSE 0 - comparison
        Cells(aCell, bCell) ==
            IF columnIndex \in dateColumns
            THEN IF aCell.dateValue # Null /\ bCell.dateValue # Null
                 THEN Directed(localeCompare(aCell.dateValue, bCell.dateValue))
                 ELSE 0
            ELSE IF aCell.numericValue # Null /\ bCell.numericValue # Null
            THEN Directed(aCell.numericValue[1] - bCell.numericValue[1])
            ELSE Directed(localeCompare(aCell.text, bCell.text))
    IN  IF columnIndex < 0 \/ columnIndex >= Len(a.cells) \/ columnIndex >= Len(b.cells)
        THEN 0
        ELSE Cells(a.cells[columnIndex + 1], b.cells[columnIndex + 1])

\* A comparator that knows dates and texts only: numbers are compared as texts.
CompareRowsByText(a, b, columnIndex, direction, dateColumns) ==
    LET Directed(comparison) == IF direction = "asc" THEN comparison ELSE 0 - comparison
        Cells(aCell, bCell) ==
            IF columnIndex \in dateColumns /\ aCell.dateValue # Null /\ bCell.dateValue # Null
            THEN Directed(localeCompare(aCell.dateValue, bCell.dateValue))
            ELSE Directed(localeCompare(aCell.text, bCell.text))
    IN  IF columnIndex < 0 \/ columnIndex >= Len(a.cells) \/ columnIndex >= Len(b.cells)
        THEN 0
        ELSE Cells(a.cells[columnIndex + 1], b.cells[columnIndex + 1])

\* The comparator of performSort for the rows a and b of the cache.
CompareRows(a, b, columnIndex, direction, dateColumns) ==
    LET Directed(comparison) == IF direction = "asc" THEN comparison ELSE 0 - comparison
        Cells(aCell, bCell) ==
            IF /\ columnIndex \in dateColumns
               /\ aCell.dateValue # Null
               /\ bCell.dateValue # Null
            THEN Directed(localeCompare(aCell.dateValue, bCell.dateValue))
            ELSE IF aCell.numericValue # Null /\ bCell.numericValue # Null
            THEN IF direction = "asc"
                 THEN aCell.numericValue[1] - bCell.numericValue[1]
                 ELSE bCell.numericValue[1] - aCell.numericValue[1]
            ELSE Directed(localeCompare(aCell.text, bCell.text))
    IN  IF columnIndex < 0 \/ columnIndex >= Len(a.cells) \/ columnIndex >= Len(b.cells)
        THEN 0
        ELSE Cells(a.cells[columnIndex + 1], b.cells[columnIndex + 1])

\* A performSort whose descending order is the ascending order reversed.
performSortByReversal(rows, rowData, columnIndex, direction, dateColumns) ==
    LET Ascending ==
            ArraySort(rows, LAMBDA a, b :
                CompareRows(rowData[a + 1], rowData[b + 1], columnIndex, "asc", dateColumns))
    IN  IF direction = "asc" THEN Ascending
        ELSE IF direction = "desc"
        THEN [k \in 1..Len(Ascending) |-> Ascending[Len(Ascending) + 1 - k]]
        ELSE ArraySort(rows, LAMBDA a, b : a - b)

\* performSort on a sequence of row references (original indices) into rowData:
\* a sorted copy; the argument is not changed.
performSort(rows, rowData, columnIndex, direction, dateColumns) ==
    IF direction # NoDirection
    THEN ArraySort(rows, LAMBDA a, b :
             CompareRows(rowData[a + 1], rowData[b + 1], columnIndex, direction, dateColumns))
    ELSE ArraySort(rows, LAMBDA a, b : a - b)

(***************************************************************************)
(* Pagination controls (getPageNumbers, buildPageButtons)                  *)
(***************************************************************************)

\* The "..." entry of the page number list.
Ellipsis == 0

\* A page number list without compression: every page, whatever their number.
getPageNumbersAll(currentPage, totalPages) == [i \in 1..totalPages |-> i]

getPageNumbers(currentPage, totalPages) ==
    IF totalPages <= 7
    THEN [i \in 1..totalPages |-> i]
    ELSE LET Around(startPage, endPage) ==
                 <<1>>
                 \o (IF currentPage > 3 THEN <<Ellipsis>> ELSE <<>>)
                 \o [i \in 1..(endPage - startPage + 1) |-> startPage + i - 1]
                 \o (IF currentPage < totalPages - 2 THEN <<Ellipsis>> ELSE <<>>)
                 \o <<totalPages>>
         IN  Around(Max(2, currentPage - 1), Min(totalPages - 1, currentPage + 1))

\* The data-page values of the enabled buttons that buildPageButtons renders:
\* Previous (disabled on the first page), the page numbers and Next (disabled
\* on the last page).  The mobile layout renders Previous and Next only.
PageLinks(currentPage, totalPages) ==
    (IF currentPage = 1 THEN {} ELSE {currentPage - 1})
        \cup (IF currentPage = totalPages THEN {} ELSE {currentPage + 1})
        \cup (Range(getPageNumbers(currentPage, totalPages)) \ {Ellipsis})

\* What renderPaginationControls leaves in the document: the result range of
\* generatePaginationHTML and the page buttons.
RenderedControls(pagination, visibleCount) ==
    [present     |-> TRUE,
     startResult |-> IF visibleCount > 0
                     THEN (pagination.currentPage - 1) * pagination.itemsPerPage + 1
                     ELSE 0,
     endResult   |-> Min(pagination.currentPage * pagination.itemsPerPage, visibleCount),
     pageLinks   |-> PageLinks(pagination.currentPage, pagination.totalPages)]

\* The document after removePaginationControls.
NoControls == [present |-> FALSE, startResult |-> 0, endResult |-> 0, pageLinks |-> {}]

(***************************************************************************)
(* Filter engine (filterTable)                                             *)
(***************************************************************************)

\* A search check in which one matching AND group is enough.
RowMatchesAnyGroup(row, terms) ==
    IF Len(terms.andGroups) > 0 \/ Len(terms.exactPhrases) > 0
    THEN /\ \A p \in 1..Len(terms.exactPhrases) :
                StrIncludes(row.fullTextLower, terms.exactPhrases[p])
         /\ \E g \in 1..Len(terms.andGroups) :
                \E t \in 1..Len(terms.andGroups[g]) :
                    StrIncludes(row.fullTextLower, terms.andGroups[g][t])
    ELSE TRUE

\* The search check of filterTable for one row.
RowMatchesSearch(row, terms) ==
    IF Len(terms.andGroups) > 0 \/ Len(terms.exactPhrases) > 0
    THEN /\ \A p \in 1..Len(terms.exactPhrases) :
                StrIncludes(row.fullTextLower, terms.exactPhrases[p])
         /\ \A g \in 1..Len(terms.andGroups) :
                \E t \in 1..Len(terms.andGroups[g]) :
                    StrIncludes(row.fullTextLower, terms.andGroups[g][t])
    ELSE TRUE

\* The column filter check of filterTable for one row: only a column for which
\* the row has a cell and the filter has values can hide the row.
RowMatchesColumns(row, columns) ==
    \A columnIndex \in DOMAIN columns :
        (columnIndex < Len(row.cells) /\ Len(columns[columnIndex]) > 0)
            => Includes(columns[columnIndex], row.cells[columnIndex + 1].text)

\* The rows of the cache that pass the search and the column filters, in cache
\* order, as references (original indices) into the cache.
VisibleRows(rowData, filters) ==
    LET Kept(kept) == [k \in 1..Len(kept) |-> kept[k].originalIndex]
        Parsed(terms) ==
            Kept(SelectSeq(rowData, LAMBDA row :
                     RowMatchesSearch(row, terms) /\ RowMatchesColumns(row, filters.columns)))
    IN  Parsed(parseSearchTerms(filters.search))

\* Is a sort active (filterTable's test before it sorts the visible rows)?
SortActive(sort) == sort.direction # NoDirection /\ sort.columnIndex # Null

\* A sorting step that, with no sort active, leaves the rows in the order of an
\* ascending sort of the first column.
FilteredRowsInFirstColumnOrder(c, visibleRows, sort) ==
    IF SortActive(sort)
    THEN performSort(visibleRows, c.rowData, sort.columnIndex[1], sort.direction,
                     c.dateColumns)
    ELSE performSort(visibleRows, c.rowData, 0, "asc", c.dateColumns)

\* cache.filteredRowData after the sorting step of filterTable.  table-filter.js
\* imports performSort from SortTable.js, which declares the function at module
\* scope without exporting it; the model binds the import to that declaration.
FilteredRows(c, visibleRows, sort) ==
    IF SortActive(sort)
    THEN performSort(visibleRows, c.rowData, sort.columnIndex[1], sort.direction,
                     c.dateColumns)
    ELSE visibleRows

\* The order in which filterTable re-appends the filtered rows to the tbody,
\* which is their order in the document from then on.
AppendedRows(filtered, sort) ==
    IF SortActive(sort) THEN filtered ELSE ArraySort(filtered, LAMBDA a, b : a - b)

\* A page window that also takes the row at endIndex.
ShownRowsThroughEnd(filtered, appended, startIndex, endIndex) ==
    SelectSeq(appended, LAMBDA r :
        \E index \in 0..(Len(filtered) - 1) :
            /\ filtered[index + 1] = r
            /\ index >= startIndex
            /\ index <= endIndex)

\* The rows left with display "" by the pagination step, in document order:
\* those at the indices startIndex <= index < endIndex of the filtered rows.
ShownRows(filtered, appended, startIndex, endIndex) ==
    SelectSeq(appended, LAMBDA r :
        \E index \in 0..(Len(filtered) - 1) :
            /\ filtered[index + 1] = r
            /\ index >= startIndex
            /\ index < endIndex)

\* A pagination step that clamps a page beyond the last one to the last page.
PaginateClamped(filtered, appended, pagination) ==
    LET Page(paged, startIndex) ==
            [filteredRowData |-> filtered,
             paginationState |-> paged,
             display         |-> ShownRows(filtered, appended, startIndex,
                                           startIndex + paged.itemsPerPage),
             controls        |-> RenderedControls(paged, Len(filtered)),
             noResults       |-> Len(filtered) = 0]
        Bounded(paged) == Page(paged, (paged.currentPage - 1) * paged.itemsPerPage)
        Counted(totalPages) ==
            Bounded([pagination EXCEPT
                        !.totalPages  = totalPages,
                        !.currentPage = IF @ > totalPages THEN totalPages ELSE @])
    IN  IF pagination.enabled /\ Len(filtered) > 0
        THEN Counted(Ceil(Len(filtered), pagination.itemsPerPage))
        ELSE [filteredRowData |-> filtered,
              paginationState |-> pagination,
              display         |-> appended,
              controls        |-> NoControls,
              noResults       |-> Len(filtered) = 0]

\* The pagination step of filterTable and the no-results message.
Paginate(filtered, appended, pagination) ==
    LET Page(paged, startIndex) ==
            [filteredRowData |-> filtered,
             paginationState |-> paged,
             display         |-> ShownRows(filtered, appended, startIndex,
                                           startIndex + paged.itemsPerPage),
             controls        |-> RenderedControls(paged, Len(filtered)),
             noResults       |-> Len(filtered) = 0]
        Bounded(paged) == Page(paged, (paged.currentPage - 1) * paged.itemsPerPage)
        Counted(totalPages) ==
            Bounded([pagination EXCEPT
                        !.totalPages  = totalPages,
                        !.currentPage = IF @ > totalPages THEN 1 ELSE @])
    IN  IF pagination.enabled /\ Len(filtered) > 0
        THEN Counted(Ceil(Len(filtered), pagination.itemsPerPage))
        ELSE [filteredRowData |-> filtered,
              paginationState |-> pagination,
              display         |-> appended,
              controls        |-> NoControls,
              noResults       |-> Len(filtered) = 0]

\* A filterTable that, like sortTable, returns at once when the table has no
\* tbody, before it reaches the no-results message.
filterTableNeedingBody(c, filters, sort, pagination) ==
    LET Sorted(filtered) == Paginate(filtered, AppendedRows(filtered, sort), pagination)
    IN  IF ~c.tbody
        THEN [filteredRowData |-> <<>>,
              paginationState |-> pagination,
              display         |-> <<>>,
              controls        |-> NoControls,
              noResults       |-> FALSE]
        ELSE Sorted(FilteredRows(c, VisibleRows(c.rowData, filters), sort))

\* filterTable: from the cache, the filters, the sort state and the pagination
\* state to the new filtered sequence, the new pagination state and what the
\* document shows: the displayed rows, the pagination controls and the
\* no-results message.
filterTable(c, filters, sort, pagination) ==
    LET Sorted(filtered) == Paginate(filtered, AppendedRows(filtered, sort), pagination)
    IN  Sorted(FilteredRows(c, VisibleRows(c.rowData, filters), sort))

(***************************************************************************)
(* URL state codec (URLSearchParams, generateFilterURL)                    *)
(***************************************************************************)

\* The percent codes of the characters of the model that the
\* application/x-www-form-urlencoded serializer escapes.
PercentCodes ==
    << <<"\"", "2", "2">>, <<"%", "2", "5">>, <<"&", "2", "6">>, <<"+", "2", "B">>,
       <<",", "2", "C">>,  <<"/", "2", "F">>, <<"=", "3", "D">>, <<"?", "3", "F">> >>

\* The position in PercentCodes of the code of a character, 0 if it has none.
RECURSIVE CodeOfChar(_, _)
CodeOfChar(ch, k) ==
    IF k > Len(PercentCodes) THEN 0
    ELSE IF PercentCodes[k][1] = ch THEN k
    ELSE CodeOfChar(ch, k + 1)

\* The position in PercentCodes of the code with the hex digits h1 h2, 0 if none.
RECURSIVE CharOfCode(_, _, _)
CharOfCode(h1, h2, k) ==
    IF k > Len(PercentCodes) THEN 0
    ELSE IF PercentCodes[k][2] = h1 /\ PercentCodes[k][3] = h2 THEN k
    ELSE CharOfCode(h1, h2, k + 1)

\* The serializer's output for one character: letters, digits and * - . _ stay,
\* a space becomes "+", anything else its percent code.
EncodeChar(ch) ==
    LET Coded(k) ==
            IF k > 0 THEN <<"%", PercentCodes[k][2], PercentCodes[k][3]>> ELSE <<ch>>
    IN  IF ch = " " THEN <<"+">> ELSE Coded(CodeOfChar(ch, 1))

RECURSIVE UrlEncode(_)
UrlEncode(s) == IF s = <<>> THEN <<>> ELSE EncodeChar(Head(s)) \o UrlEncode(Tail(s))

\* The parser's decoding: "+" is a space, a percent code is its character, a
\* "%" that starts no known code stays as it is.
RECURSIVE UrlDecode(_, _)
UrlDecode(s, i) ==
    IF i > Len(s) THEN <<>>
    ELSE IF s[i] = "+" THEN <<" ">> \o UrlDecode(s, i + 1)
    ELSE LET Coded(k) ==
                 IF k > 0
                 THEN <<PercentCodes[k][1]>> \o UrlDecode(s, i + 3)
                 ELSE <<s[i]>> \o UrlDecode(s, i + 1)
         IN  Coded(IF s[i] = "%" /\ i + 2 <= Len(s)
                   THEN CharOfCode(s[i + 1], s[i + 2], 1)
                   ELSE 0)

\* One name=value piece of a query string as a decoded pair.
ParsePair(piece) ==
    LET At(eq) ==
            IF eq = 0
            THEN [key |-> UrlDecode(piece, 1), value |-> <<>>]
            ELSE [key   |-> UrlDecode(SubSeq(piece, 1, eq - 1), 1),
                  value |-> UrlDecode(SubSeq(piece, eq + 1, Len(piece)), 1)]
    IN  At(IndexFrom(piece, "=", 1))

\* new URLSearchParams(window.location.search): the list of decoded pairs.
URLSearchParams(search) ==
    LET Pairs(pieces) == [k \in 1..Len(pieces) |-> ParsePair(pieces[k])]
    IN  Pairs(NonEmpty(SplitChar(
            IF search # <<>> /\ search[1] = "?" THEN Tail(search) ELSE search,
            "&", 1, <<>>)))

\* URLSearchParams.prototype.get: the first value of the name, Null if none.
\* (An empty value and an absent one are both falsy to the callers.)
ParamsGet(params, name) ==
    LET First(named) == IF named = <<>> THEN Null ELSE named[1].value
    IN  First(SelectSeq(params, LAMBDA p : p.key = name))

\* URLSearchParams.prototype.toString
ParamsToString(params) ==
    Join([k \in 1..Len(params) |->
             UrlEncode(params[k].key) \o <<"=">> \o UrlEncode(params[k].value)],
         <<"&">>)

\* window.location.origin + window.location.pathname
BaseUrl == <<"h", "/", "p">>

\* The names of the two parameters that are not column filters.
SearchKey == <<"s","e","a","r","c","h">>

PageKey == <<"p","a","g","e">>

\* The first entry of columnFilters for a column index or for a configured
\* name, <<>> if there is none (Array.prototype.find).
FindFilterByIndex(columnFilters, columnIndex) ==
    SelectSeq(columnFilters, LAMBDA f : f.columnIndex = columnIndex)

FindFilterByName(columnFilters, name) ==
    SelectSeq(columnFilters, LAMBDA f : f.columnName = name)

\* The keys of activeFilters.columns in Object.entries order: ascending.
RECURSIVE EntryKeys(_)
EntryKeys(keys) ==
    IF keys = {} THEN <<>>
    ELSE LET Least(k) == <<k>> \o EntryKeys(keys \ {k})
         IN  Least(CHOOSE k \in keys : \A o \in keys : k <= o)

\* Parameters of one column's values that are keyed by the column's index.
ColumnParamsByIndex(values, found) ==
    IF found = <<>> THEN <<>>
    ELSE [v \in 1..Len(values) |->
             [key |-> IntToString(found[1].columnIndex), value |-> values[v]]]

\* The parameters of one column's values, keyed by the column's configured name.
ColumnParams(values, found) ==
    IF found = <<>> THEN <<>>
    ELSE [v \in 1..Len(values) |-> [key |-> found[1].columnName, value |-> values[v]]]

\* The parameters of all active column filters.
RECURSIVE AllColumnParams(_, _, _, _)
AllColumnParams(columns, columnFilters, keys, i) ==
    IF i > Len(keys) THEN <<>>
    ELSE ColumnParams(columns[keys[i]], FindFilterByIndex(columnFilters, keys[i]))
             \o AllColumnParams(columns, columnFilters, keys, i + 1)

generateFilterURL(filters, columnFilters, pagination) ==
    LET Url(queryString) ==
            IF queryString # <<>> THEN BaseUrl \o <<"?">> \o queryString ELSE BaseUrl
    IN  Url(ParamsToString(
            (IF filters.search # <<>>
             THEN <<[key |-> SearchKey, value |-> filters.search]>>
             ELSE <<>>)
            \o AllColumnParams(filters.columns, columnFilters,
                               EntryKeys(DOMAIN filters.columns), 1)
            \o (IF pagination.enabled /\ pagination.currentPage > 1
                THEN <<[key |-> PageKey, value |-> IntToString(pagination.currentPage)]>>
                ELSE <<>>)))

\* window.location.search of a URL: from the first "?" on, empty without one.
LocationSearch(url) ==
    LET At(q) == IF q = 0 THEN <<>> ELSE SubSeq(url, q, Len(url))
    IN  At(IndexFrom(url, "?", 1))

(***************************************************************************)
(* Construction (constructor, init, applyQueryStringFilters)               *)
(***************************************************************************)

\* The value "all" of the placeholder option of every dropdown.
OptionAll == <<"a","l","l">>

\* The page sizes of the page-size selector (paginationState.availableSizes).
availableSizes == <<10, 25, 50, 100>>

\* The page size of the constructor when no data attribute gives one.
DefaultItemsPerPage == 10

\* headers.findIndex(th => th.textContent.trim().toLowerCase() === name.toLowerCase()):
\* the 0-based index of the first matching header, -1 if none.
FindHeaderIndex(headers, name) ==
    IndexFrom([k \in 1..Len(headers) |-> ToLowerCase(Trim(headers[k]))],
              ToLowerCase(name), 1) - 1

\* getUniqueColumnValues: the precomputed values, computed on demand when the
\* cache holds none for the column.
getUniqueColumnValues(c, columnIndex) ==
    IF columnIndex \in DOMAIN c.columnValues
    THEN c.columnValues[columnIndex]
    ELSE UniqueColumnValues(c.rowData, columnIndex)

\* The dropdown that generateColumnFilters makes for the index-th configured
\* name: none when no header matches, else the entry of this.columnFilters with
\* the option values of its select element.
ColumnFilter(columnName, index, columnIndex, c) ==
    IF columnIndex = -1 THEN <<>>
    ELSE <<[columnIndex |-> columnIndex,
            selectId    |-> index,
            columnName  |-> columnName,
            options     |-> <<OptionAll>> \o getUniqueColumnValues(c, columnIndex)]>>

RECURSIVE ColumnFiltersFrom(_, _, _, _)
ColumnFiltersFrom(columnNames, index, headers, c) ==
    IF index > Len(columnNames) THEN <<>>
    ELSE ColumnFilter(columnNames[index], index,
                      FindHeaderIndex(headers, columnNames[index]), c)
             \o ColumnFiltersFrom(columnNames, index + 1, headers, c)

\* createFilterMarkup and generateColumnFilters: the configured names are the
\* trimmed non-empty pieces of the data-column-filters attribute.
generateColumnFilters(config, c) ==
    LET Names(columnNames) ==
            IF columnNames = <<>> \/ ~config.hasThead THEN <<>>
            ELSE ColumnFiltersFrom(columnNames, 1, config.headers, c)
        Pieces(pieces) == Names(NonEmpty([k \in 1..Len(pieces) |-> Trim(pieces[k])]))
    IN  Pieces(SplitChar(config.columnFiltersAttr, ";", 1, <<>>))

\* The state the constructor sets before init runs.
InitialFilters == [search |-> <<>>, columns |-> <<>>]

InitialSort == [columnIndex |-> Null, direction |-> NoDirection]

InitialPagination(config) ==
    [currentPage  |-> 1,
     itemsPerPage |-> IF config.itemsPerPageAttr # <<>>
                      THEN ParseInt(config.itemsPerPageAttr)[1]
                      ELSE DefaultItemsPerPage,
     totalPages   |-> 1,
     enabled      |-> config.itemsPerPageAttr # <<>>]

\* A default sort that finds its column only when the attribute has the
\* header's own case.
applyDefaultSortExactCase(config, c, sort) ==
    LET Found(columnIndex) ==
            IF columnIndex = -1 THEN sort
            ELSE [columnIndex |-> Some(columnIndex),
                  direction   |-> IF ToLowerCase(config.defaultOrder)
                                       = <<"d","e","s","c","e","n","d","i","n","g">>
                                  THEN "desc" ELSE "asc"]
    IN  IF config.defaultColumn = <<>> \/ ~c.thead THEN sort
        ELSE Found(IndexFrom([k \in 1..Len(config.headers) |-> Trim(config.headers[k])],
                             config.defaultColumn, 1) - 1)

\* applyDefaultSort: the sort state after it.
applyDefaultSort(config, c, sort) ==
    LET Found(columnIndex) ==
            IF columnIndex = -1 THEN sort
            ELSE [columnIndex |-> Some(columnIndex),
                  direction   |-> IF ToLowerCase(config.defaultOrder)
                                       = <<"d","e","s","c","e","n","d","i","n","g">>
                                  THEN "desc" ELSE "asc"]
    IN  IF config.defaultColumn = <<>> \/ ~c.thead THEN sort
        ELSE Found(FindHeaderIndex(config.headers, config.defaultColumn))

\* A listener that pushes the value without looking for it in the array.
AddColumnValuePushing(columns, columnIndex, value) ==
    LET Now(had) ==
            [k \in DOMAIN columns \cup {columnIndex} |->
                IF k # columnIndex THEN columns[k] ELSE Append(had, value)]
    IN  Now(IF columnIndex \in DOMAIN columns THEN columns[columnIndex] ELSE <<>>)

\* The column filter sets with value added to the set of columnIndex, as the
\* dropdown listener and applyQueryStringFilters add it.
AddColumnValue(columns, columnIndex, value) ==
    LET Now(had) ==
            [k \in DOMAIN columns \cup {columnIndex} |->
                IF k # columnIndex THEN columns[k]
                ELSE IF Includes(had, value) THEN had
                ELSE Append(had, value)]
    IN  Now(IF columnIndex \in DOMAIN columns THEN columns[columnIndex] ELSE <<>>)

\* The column parameters of applyQueryStringFilters, from the i-th pair on:
\* the column filter sets after them and whether any value was accepted.
RECURSIVE ApplyColumnParams(_, _, _, _, _)
ApplyColumnParams(params, i, columnFilters, columns, applied) ==
    IF i > Len(params) THEN [columns |-> columns, applied |-> applied]
    ELSE LET Found(found) ==
                 IF \/ params[i].key = SearchKey
                    \/ params[i].key = PageKey
                    \/ found = <<>>
                    \/ ~Includes(found[1].options, params[i].value)
                 THEN ApplyColumnParams(params, i + 1, columnFilters, columns, applied)
                 ELSE ApplyColumnParams(params, i + 1, columnFilters,
                          AddColumnValue(columns, found[1].columnIndex, params[i].value),
                          TRUE)
         IN  Found(FindFilterByName(columnFilters, params[i].key))

\* A page parameter that is taken as soon as it is a number.
ApplyPageParamUnchecked(pagination, pageParam) ==
    LET Parsed(pageNum) ==
            IF pageNum # NaN
            THEN [pagination EXCEPT !.currentPage = pageNum[1]]
            ELSE pagination
    IN  IF pageParam # <<>> /\ pagination.enabled
        THEN Parsed(ParseInt(pageParam))
        ELSE pagination

\* The page parameter of applyQueryStringFilters.
ApplyPageParam(pagination, pageParam) ==
    LET Parsed(pageNum) ==
            IF pageNum # NaN /\ pageNum[1] > 0
            THEN [pagination EXCEPT !.currentPage = pageNum[1]]
            ELSE pagination
    IN  IF pageParam # <<>> /\ pagination.enabled
        THEN Parsed(ParseInt(pageParam))
        ELSE pagination

\* The applied-filters section as createFilterMarkup writes it: no pill, the
\* section hidden, the copy-link button with display "none".
InitialPills == [list |-> <<>>, section |-> FALSE, copyButton |-> FALSE]

\* The pills of one column's values; a column without a dropdown has none.
ColumnPills(columnIndex, values, found) ==
    IF found = <<>> THEN <<>>
    ELSE [v \in 1..Len(values) |-> [column |-> Some(columnIndex), label |-> values[v]]]

RECURSIVE AllColumnPills(_, _, _, _)
AllColumnPills(columns, columnFilters, keys, i) ==
    IF i > Len(keys) THEN <<>>
    ELSE ColumnPills(keys[i], columns[keys[i]], FindFilterByIndex(columnFilters, keys[i]))
             \o AllColumnPills(columns, columnFilters, keys, i + 1)

\* updateFilterPills: the pills it renders (the search pill has no column), and
\* whether it leaves the section and the copy-link button visible.
updateFilterPills(filters, columnFilters) ==
    LET Rendered(list) ==
            [list |-> list, section |-> Len(list) > 0, copyButton |-> Len(list) > 0]
    IN  Rendered((IF filters.search # <<>>
                  THEN <<[column |-> Null, label |-> filters.search]>>
                  ELSE <<>>)
                 \o AllColumnPills(filters.columns, columnFilters,
                                   EntryKeys(DOMAIN filters.columns), 1))

\* An updateNoResultsMessage that creates a message whenever it is to show
\* one, without looking for the one in the document.
updateNoResultsMessageAppending(show, messages) ==
    IF show THEN messages + 1
    ELSE IF messages > 0 THEN messages - 1
    ELSE messages

\* updateNoResultsMessage of NoResults.js: the number of message elements in
\* the document after it, messages being their number before.  The message
\* is created when it is to show and document.querySelector finds none, and
\* the one found is removed when it is not to show.
updateNoResultsMessage(show, messages) ==
    IF show /\ messages = 0 THEN messages + 1
    ELSE IF ~show /\ messages > 0 THEN messages - 1
    ELSE messages

\* An applyQueryStringFilters that applies the link's filters and leaves the
\* pills as the markup has them.
applyQueryStringFiltersWithoutPills(c, columnFilters, filters, sort, pagination, locationSearch) ==
    LET Applied(newFilters, paged, filtersApplied) ==
            [activeFilters   |-> newFilters,
             paginationState |-> IF filtersApplied
                                 THEN filterTable(c, newFilters, sort, paged).paginationState
                                 ELSE paged,
             messages        |-> IF filtersApplied
                                 THEN updateNoResultsMessage(
                                          filterTable(c, newFilters, sort, paged).noResults, 0)
                                 ELSE 0,
             pills           |-> InitialPills]
        Read(urlParams, searchParam, cols) ==
            Applied([search  |-> IF searchParam # <<>> THEN searchParam ELSE filters.search,
                     columns |-> cols.columns],
                    ApplyPageParam(pagination, ParamsGet(urlParams, PageKey)),
                    searchParam # <<>> \/ cols.applied)
        Params(urlParams) ==
            Read(urlParams, ParamsGet(urlParams, SearchKey),
                 ApplyColumnParams(urlParams, 1, columnFilters, filters.columns, FALSE))
    IN  Params(URLSearchParams(locationSearch))

\* applyQueryStringFilters: the filters, the pagination state, the message
\* elements and the pills after it, filterTable and updateFilterPills having
\* run when a search or a column value was applied.
applyQueryStringFilters(c, columnFilters, filters, sort, pagination, locationSearch) ==
    LET Applied(newFilters, paged, filtersApplied) ==
            [activeFilters   |-> newFilters,
             paginationState |-> IF filtersApplied
                                 THEN filterTable(c, newFilters, sort, paged).paginationState
                                 ELSE paged,
             messages        |-> IF filtersApplied
                                 THEN updateNoResultsMessage(
                                          filterTable(c, newFilters, sort, paged).noResults, 0)
                                 ELSE 0,
             pills           |-> IF filtersApplied
                                 THEN updateFilterPills(newFilters, columnFilters)
                                 ELSE InitialPills]
        Read(urlParams, searchParam, cols) ==
            Applied([search  |-> IF searchParam # <<>> THEN searchParam ELSE filters.search,
                     columns |-> cols.columns],
                    ApplyPageParam(pagination, ParamsGet(urlParams, PageKey)),
                    searchParam # <<>> \/ cols.applied)
        Params(urlParams) ==
            Read(urlParams, ParamsGet(urlParams, SearchKey),
                 ApplyColumnParams(urlParams, 1, columnFilters, filters.columns, FALSE))
    IN  Params(URLSearchParams(locationSearch))

\* new TableFilter(...) on a page with the markup config whose URL has the
\* query string locationSearch: the widget and the document after init.
Construct(config, locationSearch) ==
    LET Messages(q, last) == updateNoResultsMessage(last.noResults, q.messages)
        Shown(c, filterList, sort, q, last) ==
            [cache           |-> [c EXCEPT !.filteredRowData = last.filteredRowData],
             columnFilters   |-> filterList,
             activeFilters   |-> q.activeFilters,
             sortState       |-> sort,
             paginationState |-> last.paginationState,
             display         |-> last.display,
             controls        |-> last.controls,
             messages        |-> Messages(q, last),
             noResults       |-> Messages(q, last) > 0,
             pills           |-> q.pills]
        Queried(c, filterList, sort, q) ==
            Shown(c, filterList, sort, q,
                  filterTable(c, q.activeFilters, sort, q.paginationState))
        Marked(c, filterList, sort) ==
            Queried(c, filterList, sort,
                    applyQueryStringFilters(c, filterList, InitialFilters, sort,
                                            InitialPagination(config), locationSearch))
        Cached(c) ==
            Marked(c, generateColumnFilters(config, c), applyDefaultSort(config, c, InitialSort))
    IN  Cached(cacheTableData(config))

\* No clipboard write in flight, and no copy made yet.
NoCopies == [writes |-> <<>>, fallbackUrl |-> Null, feedback |-> "none"]

\* The innerHTML of the copy-link button as createFilterMarkup writes it, and
\* as showCopyFeedback writes it.
LinkLabel == "Copy filter link"

CopiedLabel == "Copied!"

\* The copy-link button after createFilterMarkup: its label, enabled, and no
\* reset timer running.
InitialButton == [label |-> LinkLabel, disabled |-> FALSE, timers |-> <<>>]

(***************************************************************************)
(* The pages of the model: tables, data attributes and URLs                *)
(***************************************************************************)

sFire   == <<"f","i","r","e">>
sWater  == <<"W","a","t","e","r">>
sFlood  == <<"f","l","o","o","d">>
sUrgent == <<"u","r","g","e","n","t"," ","F","i","r","e">>
sIT     == <<"I","T">>
sHR     == <<"H"," ","R">>
s2023   == <<"2","0","2","3">>
s2024   == <<"2","0","2","4">>
sZz     == <<"z","z">>
sDept   == <<"d","e","p","t">>
sYear   == <<"Y","e","a","r">>

\* Title, department and year; the fourth row has no year cell.
Headers == << <<"T","i","t","l","e">>, <<"D","e","p","t">>, sYear >>

TableRows ==
    << <<sFire,                   sIT, s2023>>,
       <<sWater,                  sIT, s2024>>,
       <<sFire \o <<" ">> \o sWater, sHR, s2023>>,
       <<sFlood,                  sHR>>,
       <<sUrgent,                 sIT, s2024>> >>

\* The markup a widget is constructed on: the table and the data attributes of
\* its filter element (an absent attribute is the empty string).
PagedConfig ==
    [hasTbody          |-> TRUE,
     hasThead          |-> TRUE,
     headers           |-> Headers,
     rows              |-> TableRows,
     columnFiltersAttr |-> sDept \o <<";", " ">> \o sYear,
     itemsPerPageAttr  |-> <<"2">>,
     defaultColumn     |-> <<>>,
     defaultOrder      |-> <<>>]

UnpagedConfig == [PagedConfig EXCEPT !.itemsPerPageAttr = <<>>]

NoTbodyConfig == [PagedConfig EXCEPT !.hasTbody = FALSE, !.rows = <<>>]

Configs == {PagedConfig, UnpagedConfig, NoTbodyConfig}

\* The query strings of the URLs a page is opened with.
LocationSearches ==
    { <<>>,
      <<"?">> \o PageKey \o <<"=", "2">>,
      <<"?">> \o PageKey \o <<"=", "9">>,
      <<"?">> \o SearchKey \o <<"=">> \o sFire \o <<"&">> \o sDept \o <<"=">> \o sIT
              \o <<"&">> \o PageKey \o <<"=", "2">> }

\* The texts typed into the search input.
SearchInputs ==
    { <<>>,
      sFire,
      sZz,
      <<"\"">> \o sFire \o <<" ", "w", "\"", " ", "A", "N", "D", " ">> \o s2023 \o <<" ">> \o sFlood }

\* How many of the sizes of the page-size selector the model chooses from.
MaxSizeChoice == 1

PageSizeChoices == {availableSizes[k] : k \in 1..MaxSizeChoice}

(***************************************************************************)
(* The widget as a state machine                                           *)
(***************************************************************************)

VARIABLES
    config,          \* the markup the widget was constructed on
    cache,           \* this.cache
    columnFilters,   \* this.columnFilters, with each dropdown's option values
    activeFilters,   \* this.activeFilters
    sortState,       \* this.sortState
    paginationState, \* this.paginationState
    display,         \* the rows (original indices) with style.display "", in document order
    controls,        \* the pagination controls in the document
    messages,        \* the number of no-results message elements in the document
    noResults,       \* whether the no-results message is in the document
    pills,           \* the applied-filters section of the document
    fault,           \* whether the last operation ended in an uncaught exception
    clipboard,       \* the clipboard writes in flight and the copies made
    copyButton       \* the copy-link button and its reset timers

vars == <<config, cache, columnFilters, activeFilters, sortState, paginationState,
          display, controls, messages, noResults, pills, fault, clipboard, copyButton>>

\* The variables hold the widget w and its document.
Widget(cfg, w) ==
    /\ config = cfg
    /\ cache = w.cache
    /\ columnFilters = w.columnFilters
    /\ activeFilters = w.activeFilters
    /\ sortState = w.sortState
    /\ paginationState = w.paginationState
    /\ display = w.display
    /\ controls = w.controls
    /\ messages = w.messages
    /\ noResults = w.noResults
    /\ pills = w.pills
    /\ fault = FALSE
    /\ clipboard = NoCopies
    /\ copyButton = InitialButton

\* The state after new TableFilter(...) on one of the pages.
Init ==
    \E cfg \in Configs, search \in LocationSearches :
        Widget(cfg, Construct(cfg, search))

\* A handler whose sort works on this.cache.rowData itself instead of a copy:
\* the cache is left in the order of the sort.
FilteredSortingInPlace(filters, sort, r) ==
    LET Reordered(order) == [k \in 1..Len(order) |-> cache.rowData[order[k] + 1]]
    IN  /\ activeFilters' = filters
        /\ sortState' = sort
        /\ paginationState' = r.paginationState
        /\ cache' = [cache EXCEPT
                        !.filteredRowData = r.filteredRowData,
                        !.rowData = Reordered(FilteredRows(cache,
                                        [k \in 1..Len(cache.rowData) |-> k - 1], sort))]
        /\ display' = r.display
        /\ controls' = r.controls
        /\ messages' = updateNoResultsMessage(r.noResults, messages)
        /\ noResults' = (messages' > 0)
        /\ fault' = FALSE
        /\ UNCHANGED <<config, columnFilters, clipboard, copyButton>>

\* The widget and the document after a handler has set the filters and the sort
\* state and its call of this.filterTable() has returned r.
Filtered(filters, sort, r) ==
    /\ activeFilters' = filters
    /\ sortState' = sort
    /\ paginationState' = r.paginationState
    /\ cache' = [cache EXCEPT !.filteredRowData = r.filteredRowData]
    /\ display' = r.display
    /\ controls' = r.controls
    /\ messages' = updateNoResultsMessage(r.noResults, messages)
    /\ noResults' = (messages' > 0)
    /\ fault' = FALSE
    /\ UNCHANGED <<config, columnFilters, clipboard, copyButton>>

\* A handler's call of this.filterTable() with the filters, sort state and
\* pagination state it has set, in a handler that leaves the pills alone.
Refilter(filters, sort, pagination) ==
    /\ Filtered(filters, sort, filterTable(cache, filters, sort, pagination))
    /\ pills' = pills

\* The same in a handler that goes on to call this.updateFilterPills().
RefilterPills(filters, sort, pagination) ==
    /\ Filtered(filters, sort, filterTable(cache, filters, sort, pagination))
    /\ pills' = updateFilterPills(filters, columnFilters)

FirstPage(pagination) == [pagination EXCEPT !.currentPage = 1]

\* The "input" listener of the search input.
SearchInput(value) ==
    RefilterPills([activeFilters EXCEPT !.search = value], sortState,
             FirstPage(paginationState))

\* The "click" listener of the clear button of the search input, which is
\* hidden while the input is empty.
ClearInputClick ==
    /\ activeFilters.search # <<>>
    /\ RefilterPills([activeFilters EXCEPT !.search = <<>>], sortState,
                FirstPage(paginationState))

\* clearSearchFilter, the onclick of the search pill, which exists while the
\* search string is not empty.
clearSearchFilter ==
    /\ activeFilters.search # <<>>
    /\ RefilterPills([activeFilters EXCEPT !.search = <<>>], sortState, paginationState)

\* The "change" listener of the dropdown of the filter f for option value.
ColumnSelect(f, value) ==
    RefilterPills([activeFilters EXCEPT !.columns =
                 IF value # OptionAll
                 THEN AddColumnValue(activeFilters.columns, f.columnIndex, value)
                 ELSE activeFilters.columns],
             sortState, FirstPage(paginationState))

\* Array.prototype.splice(index, 1) after indexOf: the array without the first
\* occurrence of value.
RemoveValue(values, value) ==
    LET At(index) ==
            IF index = 0 THEN values
            ELSE SubSeq(values, 1, index - 1) \o SubSeq(values, index + 1, Len(values))
    IN  At(IndexFrom(values, value, 1))

\* delete columns[columnIndex]
DeleteKey(columns, columnIndex) ==
    [k \in DOMAIN columns \ {columnIndex} |-> columns[k]]

\* A clearColumnFilter that deletes the column's entry whatever the value.
ClearedColumnsWhole(columns, columnIndex, filterValue) ==
    DeleteKey(columns, columnIndex)

\* The column filter sets after clearColumnFilter(columnIndex, filterValue);
\* filterValue is Null when the argument is omitted.
ClearedColumns(columns, columnIndex, filterValue) ==
    LET Spliced(filters) ==
            IF Len(filters) = 0 THEN DeleteKey(columns, columnIndex)
            ELSE [columns EXCEPT ![columnIndex] = filters]
    IN  IF filterValue = Null THEN DeleteKey(columns, columnIndex)
        ELSE IF columnIndex \notin DOMAIN columns THEN columns
        ELSE Spliced(RemoveValue(columns[columnIndex], filterValue))

\* clearColumnFilter, the onclick of a column pill and a public method.
clearColumnFilter(columnIndex, filterValue) ==
    RefilterPills([activeFilters EXCEPT !.columns =
                 ClearedColumns(activeFilters.columns, columnIndex, filterValue)],
             sortState, FirstPage(paginationState))

\* A "Clear all" that also resets the sort.
clearAllFiltersAndSort ==
    RefilterPills(InitialFilters, InitialSort, FirstPage(paginationState))

\* clearAllFilters, the "click" listener of the "Clear all" link.
clearAllFilters ==
    RefilterPills(InitialFilters, sortState, FirstPage(paginationState))

\* A toggle between ascending and descending that never returns to unsorted.
NextSortStateTwoWay(sort, columnIndex) ==
    [columnIndex |-> Some(columnIndex),
     direction   |-> IF sort.columnIndex = Some(columnIndex) /\ sort.direction = "asc"
                     THEN "desc" ELSE "asc"]

\* The sort state after sortTable(columnIndex): the three-state toggle.
NextSortState(sort, columnIndex) ==
    LET Toggled(direction) ==
            [columnIndex |-> IF direction # NoDirection THEN Some(columnIndex) ELSE Null,
             direction   |-> direction]
    IN  Toggled(IF sort.columnIndex = Some(columnIndex)
                THEN IF sort.direction = "asc" THEN "desc"
                     ELSE IF sort.direction = "desc" THEN NoDirection
                     ELSE "asc"
                ELSE "asc")

\* The sort state that sortTable(columnIndex) leaves: without a tbody it
\* returns before it reads the sort state.
SortStateAfter(c, sort, columnIndex) ==
    IF ~c.tbody THEN sort ELSE NextSortState(sort, columnIndex)

\* A sortTable that sorts the rows the table shows, in the order the last
\* operation left them, instead of filtering the cache again.
sortTableOfShownRows(columnIndex) ==
    LET Sorted(sort, r) ==
            /\ Filtered(activeFilters, sort,
                        [r EXCEPT !.filteredRowData =
                             performSort(cache.filteredRowData, cache.rowData, columnIndex,
                                         sort.direction, cache.dateColumns)])
            /\ pills' = pills
        Toggled(sort) ==
            Sorted(sort, filterTable(cache, activeFilters, sort, FirstPage(paginationState)))
    IN  IF ~cache.tbody
        THEN UNCHANGED vars
        ELSE Toggled(SortStateAfter(cache, sortState, columnIndex))

\* sortTable of SortTable.js, the "click" listener of header columnIndex.
sortTable(columnIndex) ==
    IF ~cache.tbody
    THEN UNCHANGED vars
    ELSE Refilter(activeFilters, SortStateAfter(cache, sortState, columnIndex),
                  FirstPage(paginationState))

\* The "change" listener of the page-size selector.
PageSizeChange(size) ==
    /\ controls.present
    /\ Refilter(activeFilters, sortState,
                [paginationState EXCEPT !.itemsPerPage = size, !.currentPage = 1])

\* The "click" listener of a page button with data-page newPage.
PageClick(newPage) ==
    /\ controls.present
    /\ newPage \in controls.pageLinks
    /\ IF newPage >= 1 /\ newPage <= paginationState.totalPages
       THEN Refilter(activeFilters, sortState,
                     [paginationState EXCEPT !.currentPage = newPage])
       ELSE UNCHANGED vars

\* The arguments of the calls of clearColumnFilter for a column: the values of
\* its pills, and none.
PillValues(columnIndex) ==
    {Null} \cup (IF columnIndex \in DOMAIN activeFilters.columns
                 THEN Range(activeFilters.columns[columnIndex])
                 ELSE {})

Next ==
    \/ \E value \in SearchInputs : SearchInput(value)
    \/ ClearInputClick
    \/ clearSearchFilter
    \/ \E k \in 1..Len(columnFilters) :
           \E value \in Range(columnFilters[k].options) :
               ColumnSelect(columnFilters[k], value)
    \/ \E k \in 1..Len(columnFilters) :
           \E filterValue \in PillValues(columnFilters[k].columnIndex) :
               clearColumnFilter(columnFilters[k].columnIndex, filterValue)
    \/ clearAllFilters
    \/ \E columnIndex \in 0..(Len(config.headers) - 1) : sortTable(columnIndex)
    \/ \E size \in PageSizeChoices : PageSizeChange(size)
    \/ \E newPage \in controls.pageLinks : PageClick(newPage)

Spec == Init /\ [][Next]_vars

(***************************************************************************)
(* The search engine on typed queries                                      *)
(***************************************************************************)

\* The pieces a query is typed from: three words of the table (two of them in
\* another case than the table's), a blank, the keyword in mixed case between
\* blanks, a quote, a quoted phrase that spans a blank, and the text that
\* parseSearchTerms puts in the place of the first quoted phrase.
QueryTokens ==
    {sFire, <<"w", "A">>, <<"i", "T">>, <<" ">>, <<" ", "a", "N", "d", " ">>, <<"\"">>,
     <<"\"", "e", " ", "w", "\"">>, Placeholder(0)}

\* The largest number of pieces of a typed query.
MaxTokens == 3

\* The concatenation of a sequence of strings.
RECURSIVE Concat(_)
Concat(pieces) == IF pieces = <<>> THEN <<>> ELSE Head(pieces) \o Concat(Tail(pieces))

TypedQueries ==
    {Concat(pieces) : pieces \in UNION {[1..n -> QueryTokens] : n \in 0..MaxTokens}}

\* The query string of a shared link that carries the search string query.
SearchLink(query) == <<"?">> \o SearchKey \o <<"=">> \o UrlEncode(query)

\* The page is opened through a shared link that carries a typed query.
InitSearch ==
    \E query \in TypedQueries :
        Widget(PagedConfig, Construct(PagedConfig, SearchLink(query)))

\* The search is then cleared, through the clear button or through its pill.
NextSearch ==
    \/ ClearInputClick
    \/ clearSearchFilter

SpecSearch == InitSearch /\ [][NextSearch]_vars

(***************************************************************************)
(* The URL reader on shared links                                          *)
(***************************************************************************)

\* One parameter of a link.
Param(key, value) == [key |-> key, value |-> value]

\* The parameters links are made of: a search, a value of the dept dropdown and
\* a page; a key that no filter is configured for, the header's spelling of the
\* configured name dept, a value that differs from an option in case only, and
\* page values that are a word, zero, negative, and a number followed by a letter.
LinkParams ==
    { Param(SearchKey, sFire),
      Param(sDept, sIT),
      Param(PageKey, <<"2">>),
      Param(<<"x">>, <<"1">>),
      Param(Headers[2], sIT),
      Param(sDept, <<"i", "t">>),
      Param(PageKey, <<"a", "b">>),
      Param(PageKey, <<"0">>),
      Param(PageKey, <<"-", "1">>),
      Param(PageKey, <<"2", "a">>) }

\* The largest number of parameters of a link.
MaxLinkParams == 2

\* window.location.search of a link with the parameters params.
LinkSearch(params) ==
    IF params = <<>> THEN <<>> ELSE <<"?">> \o ParamsToString(params)

\* The links: at most one page parameter each (URLSearchParams.get reads the
\* first one only).
Links ==
    {params \in UNION {[1..n -> LinkParams] : n \in 0..MaxLinkParams} :
        Cardinality({k \in 1..Len(params) : params[k].key = PageKey}) <= 1}

\* The markup cfg on a page that was opened through the link params.
Linked(cfg, params) ==
    [field \in DOMAIN cfg \cup {"linkParams"} |->
        IF field = "linkParams" THEN params ELSE cfg[field]]

\* A page with or without pagination is opened through a link.
InitLink ==
    \E cfg \in {PagedConfig, UnpagedConfig} :
        \E params \in Links :
            Widget(Linked(cfg, params), Construct(cfg, LinkSearch(params)))

\* The search is then cleared, through the clear button or through its pill.
NextLink ==
    \/ ClearInputClick
    \/ clearSearchFilter

SpecLink == InitLink /\ [][NextLink]_vars

(***************************************************************************)
(* A table with date columns and a numeric column                          *)
(***************************************************************************)

\* Date, quantity and end date.  The dates of the first column are written
\* day-month-year and year-month-day, with one or two digits for day and month
\* and with the separators of the patterns;
\* the end date of the second row is a word and the fourth row has no end date
\* cell.
DatedHeaders ==
    << <<"D","a","t","e">>, <<"Q","t","y">>, <<"E","n","d"," ","D","A","T","E">> >>

DatedRows ==
    << << <<"2","4","/","0","1","/","2","0","2","4">>, <<"1","0">>,
          <<"1"," ","2"," ","2","0","2","4">> >>,
       << <<"0","1","/","1","2","/","2","0","2","3">>, <<"2">>, <<"t","b","c">> >>,
       << <<"2","0","2","4","-","0","3","-","0","1">>, <<"3","3">>,
          <<"2","0","2","4","/","1","/","5">> >>,
       << <<"1","-","2","-","2","0","2","4">>, <<"2">> >> >>

DatedConfig ==
    [hasTbody          |-> TRUE,
     hasThead          |-> TRUE,
     headers           |-> DatedHeaders,
     rows              |-> DatedRows,
     columnFiltersAttr |-> DatedHeaders[2],
     itemsPerPageAttr  |-> <<"2">>,
     defaultColumn     |-> <<>>,
     defaultOrder      |-> <<>>]

\* The page with the dated table is opened without a query string.
InitSort == Widget(DatedConfig, Construct(DatedConfig, <<>>))

SpecSort == InitSort /\ [][Next]_vars

(***************************************************************************)
(* Long tables, one row to the page                                        *)
(***************************************************************************)

\* The largest number of rows of a long table.
MaxPagedRows == 14

\* A table of n one-cell rows that is shown one row to the page.
LongConfig(n) ==
    [hasTbody          |-> TRUE,
     hasThead          |-> TRUE,
     headers           |-> << <<"T">> >>,
     rows              |-> [k \in 1..n |-> << <<"r">> >>],
     columnFiltersAttr |-> <<>>,
     itemsPerPageAttr  |-> <<"1">>,
     defaultColumn     |-> <<>>,
     defaultOrder      |-> <<>>]

\* The page with a long table is opened without a query string.
InitPages ==
    \E n \in 1..MaxPagedRows : Widget(LongConfig(n), Construct(LongConfig(n), <<>>))

\* The page buttons are clicked.
NextPages == \E newPage \in controls.pageLinks : PageClick(newPage)

SpecPages == InitPages /\ [][NextPages]_vars

(***************************************************************************)
(* The widget driven through its listeners and its public methods          *)
(***************************************************************************)

\* A link whose page parameter is zero.
ZeroPageSearch == <<"?">> \o PageKey \o <<"=", "0">>

InitApi ==
    \E cfg \in Configs, search \in LocationSearches \cup {ZeroPageSearch} :
        Widget(cfg, Construct(cfg, search))

\* The data-page values of the disabled buttons that buildPageButtons renders:
\* Previous on the first page and Next on the last page.
DisabledPageLinks(currentPage, totalPages) ==
    (IF currentPage = 1 THEN {currentPage - 1} ELSE {})
        \cup (IF currentPage = totalPages THEN {currentPage + 1} ELSE {})

\* A page listener that goes to whatever page its button names.
PageListenerUnchecked(newPage) ==
    Refilter(activeFilters, sortState, [paginationState EXCEPT !.currentPage = newPage])

\* The body of the "click" listener of a page button with data-page newPage.
PageListener(newPage) ==
    IF newPage >= 1 /\ newPage <= paginationState.totalPages
    THEN Refilter(activeFilters, sortState,
                  [paginationState EXCEPT !.currentPage = newPage])
    ELSE UNCHANGED vars

\* The listener of a disabled page button, run by a click event that a script
\* dispatches on it.
DisabledPageClick(newPage) ==
    /\ controls.present
    /\ newPage \in DisabledPageLinks(paginationState.currentPage,
                                     paginationState.totalPages)
    /\ PageListener(newPage)

\* The values a caller passes to clearColumnFilter: none, an option of some
\* dropdown, or a text that is no option.
CallerValues ==
    {Null, sZz} \cup UNION {Range(columnFilters[k].options) : k \in 1..Len(columnFilters)}

NextApi ==
    \/ Next
    \/ \E newPage \in DisabledPageLinks(paginationState.currentPage,
                                        paginationState.totalPages) :
           DisabledPageClick(newPage)
    \/ \E columnIndex \in 0..Len(config.headers), filterValue \in CallerValues :
           clearColumnFilter(columnIndex, filterValue)

SpecApi == InitApi /\ [][NextApi]_vars

\* The paged table on which values are selected and cleared while a search is
\* typed and the department column is sorted.
InitClear == Widget(PagedConfig, Construct(PagedConfig, <<>>))

NextClear ==
    \/ \E value \in {<<>>, sFire} : SearchInput(value)
    \/ \E k \in 1..Len(columnFilters) :
           \E value \in Range(columnFilters[k].options) :
               ColumnSelect(columnFilters[k], value)
    \/ \E columnIndex \in 0..Len(config.headers), filterValue \in CallerValues :
           clearColumnFilter(columnIndex, filterValue)
    \/ sortTable(1)

SpecClear == InitClear /\ [][NextClear]_vars

(***************************************************************************)
(* sortTable as a public method                                            *)
(***************************************************************************)

\* Whether headers[columnIndex] of updateHeaderClasses is a header cell.
HasHeader(columnIndex) ==
    config.hasThead /\ columnIndex >= 0 /\ columnIndex < Len(config.headers)

\* The column indices a caller passes to sortTable: those of the headers, the
\* one before them and the one after them.
CallerIndices == (0 - 1)..Len(config.headers)

\* sortTable(columnIndex) called by a script.  It sets the sort state and the
\* current page, then updateHeaderClasses reads headers[columnIndex].classList
\* when the new direction is not null: without such a header that is a
\* TypeError, thrown before performSort and this.filterTable() are reached.
sortTableCall(columnIndex) ==
    LET Toggled(sort) ==
            IF sort.direction # NoDirection /\ ~HasHeader(columnIndex)
            THEN /\ sortState' = sort
                 /\ paginationState' = FirstPage(paginationState)
                 /\ fault' = TRUE
                 /\ UNCHANGED <<config, cache, columnFilters, activeFilters, display,
                                controls, messages, noResults, pills, clipboard,
                                copyButton>>
            ELSE Refilter(activeFilters, sort, FirstPage(paginationState))
    IN  IF ~cache.tbody
        THEN UNCHANGED vars
        ELSE Toggled(NextSortState(sortState, columnIndex))

NextFault ==
    \/ Next
    \/ \E columnIndex \in CallerIndices : sortTableCall(columnIndex)

SpecFault == Init /\ [][NextFault]_vars

(***************************************************************************)
(* Pages with a default sort                                               *)
(***************************************************************************)

\* The values of data-default-column: absent, two headers in another case,
\* no header, and a header with a blank after it.
DefaultColumns ==
    {<<>>, <<"y","e","a","r">>, <<"T","I","T","L","E">>, sZz, <<"D","e","p","t"," ">>}

\* The values of data-order: absent, the documented values in two cases, and
\* an abbreviation.
DefaultOrders ==
    {<<>>, <<"D","e","s","c","e","n","d","i","n","g">>,
     <<"d","e","s","c","e","n","d","i","n","g">>,
     <<"A","s","c","e","n","d","i","n","g">>, <<"d","e","s","c">>}

\* The main table with blanks around its second header and the attributes of
\* a default sort.
DefaultSortConfig(column, order) ==
    [PagedConfig EXCEPT
        !.headers = [@ EXCEPT ![2] = <<" ">> \o @ \o <<" ">>],
        !.defaultColumn = column,
        !.defaultOrder = order]

InitDefault ==
    \E column \in DefaultColumns, order \in DefaultOrders :
        Widget(DefaultSortConfig(column, order),
               Construct(DefaultSortConfig(column, order), <<>>))

NextDefault ==
    \/ \E columnIndex \in 0..(Len(config.headers) - 1) : sortTable(columnIndex)
    \/ \E newPage \in controls.pageLinks : PageClick(newPage)

SpecDefault == InitDefault /\ [][NextDefault]_vars

(***************************************************************************)
(* Pages opened through links that name dropdown options                   *)
(***************************************************************************)

\* The link with one value twice.
RepeatedValueLink ==
    <<"?">> \o sDept \o <<"=">> \o sIT \o <<"&">> \o sDept \o <<"=">> \o sIT
        \o <<"&">> \o sYear \o <<"=">> \o s2023

\* The query strings: none; the placeholder option "all" for a column; one
\* value twice; the placeholder between values; a search that no row passes
\* with a page.
OptionLinks ==
    { <<>>,
      <<"?">> \o sDept \o <<"=">> \o OptionAll,
      RepeatedValueLink,
      <<"?">> \o sYear \o <<"=">> \o s2024 \o <<"&">> \o sYear \o <<"=">> \o OptionAll
              \o <<"&">> \o sYear \o <<"=">> \o s2024,
      <<"?">> \o SearchKey \o <<"=">> \o sZz \o <<"&">> \o PageKey \o <<"=", "2">> }

\* The markup together with window.location.search, which the state keeps.
OpenedWith(cfg, search) ==
    [field \in DOMAIN cfg \cup {"locationSearch"} |->
        IF field = "locationSearch" THEN search ELSE cfg[field]]

InitOptions ==
    \E cfg \in {PagedConfig, NoTbodyConfig}, search \in OptionLinks :
        Widget(OpenedWith(cfg, search), Construct(cfg, search))

NextOptions ==
    \/ \E k \in 1..Len(columnFilters) :
           \E value \in Range(columnFilters[k].options) :
               ColumnSelect(columnFilters[k], value)
    \/ \E k \in 1..Len(columnFilters) :
           \E filterValue \in PillValues(columnFilters[k].columnIndex) :
               clearColumnFilter(columnFilters[k].columnIndex, filterValue)
    \/ clearSearchFilter
    \/ \E newPage \in controls.pageLinks : PageClick(newPage)

SpecOptions == InitOptions /\ [][NextOptions]_vars

(***************************************************************************)
(* A table whose first column mixes numbers, texts with digits and texts   *)
(***************************************************************************)

sRoom9 == <<"R","o","o","m"," ","9">>
sAnnex == <<"A","n","n","e","x">>

MixedHeaders == << <<"P","l","a","c","e">>, <<"D","e","p","t">> >>

\* "Room 9" has the numeric value 9, "10" and "2" their own, "Annex" none.
MixedRows ==
    << <<sRoom9,       sIT>>,
       <<<<"1","0">>,  sHR>>,
       <<sAnnex,       sIT>>,
       <<<<"2">>,      sHR>> >>

MixedConfig ==
    [PagedConfig EXCEPT !.headers = MixedHeaders,
                        !.rows = MixedRows,
                        !.columnFiltersAttr = sDept]

InitMixed == Widget(MixedConfig, Construct(MixedConfig, <<>>))

SpecMixed == InitMixed /\ [][Next]_vars

(***************************************************************************)
(* A table whose columns hold equal dates, numbers and texts               *)
(***************************************************************************)

TiedHeaders == << <<"D","a","t","e">>, <<"Q","t","y">>, <<"D","e","p","t">> >>

\* The first and the third row have one date in two notations and one
\* quantity in two texts, the second and the fourth likewise; the departments
\* are equal texts.
TiedRows ==
    << << <<"2","4","/","0","1","/","2","0","2","4">>, <<"9">>,             sIT >>,
       << <<"0","1","/","1","2","/","2","0","2","3">>, <<"2">>,             sHR >>,
       << <<"2","0","2","4","-","0","1","-","2","4">>, <<"9"," ","k","g">>, sIT >>,
       << <<"1","-","1","2","-","2","0","2","3">>,     <<"2"," ","k","g">>, sHR >> >>

TiedConfig ==
    [PagedConfig EXCEPT !.headers = TiedHeaders,
                        !.rows = TiedRows,
                        !.columnFiltersAttr = sDept]

InitTies == Widget(TiedConfig, Construct(TiedConfig, <<>>))

SpecTies == InitTies /\ [][Next]_vars

(***************************************************************************)
(* Properties                                                              *)
(***************************************************************************)

\* The rows of the cache as a set, and the rows filterTable kept.
CachedRows == Range(cache.rowData)

KeptRows == Range(cache.filteredRowData)

\* visibleCount of the last run of filterTable.
VisibleCount == Len(cache.filteredRowData)

\* ---- C1 ----------------------------------------------------------------

\* The whitespace-split lowercased terms of a query.
C1_PlainTerms(query) == Range(NonEmpty(SplitSpaces(ToLowerCase(query), 1, <<>>)))

\* A query with no quote and no AND keyword.
C1_IsPlain(query) ==
    /\ ~Includes(query, "\"")
    /\ <<"a", "n", "d">> \notin C1_PlainTerms(query)

\* The search condition of the claim for a row: every phrase that
\* parseSearchTerms extracts is a substring of the row's lowercased text, and
\* every AND group has a term that is one.
C1_Matches(row, terms) ==
    /\ \A p \in 1..Len(terms.exactPhrases) :
           StrIncludes(row.fullTextLower, terms.exactPhrases[p])
    /\ \A g \in 1..Len(terms.andGroups) :
           \E t \in 1..Len(terms.andGroups[g]) :
               StrIncludes(row.fullTextLower, terms.andGroups[g][t])

\* The rows a search string keeps according to the claim, before the column
\* filters: all of them for a blank query, those with one of the terms for a
\* plain query, those that match the parsed phrases and groups in general.
C1_Expected(query) ==
    IF Trim(query) = <<>> THEN CachedRows
    ELSE IF C1_IsPlain(query)
    THEN {row \in CachedRows :
             \E term \in C1_PlainTerms(query) : StrIncludes(row.fullTextLower, term)}
    ELSE {row \in CachedRows : C1_Matches(row, parseSearchTerms(query))}

\* C1: filterTable keeps a row, before the column filters, iff every quoted
\* phrase of the search string is a substring of the row's lowercased text and
\* every AND group has a term that is one; a plain query (no quote, no AND
\* keyword) keeps the rows that contain one of its whitespace-split lowercased
\* terms, and an empty or whitespace-only query keeps every row.
C1_SearchKeepsMatchingRows ==
    KeptRows = {row.originalIndex : row \in
                   {r \in C1_Expected(activeFilters.search) :
                       RowMatchesColumns(r, activeFilters.columns)}}

\* A quoted phrase and an AND group are both in force and split the table:
\* some row is kept and some row is hidden.
C1_Witness ==
    /\ Len(parseSearchTerms(activeFilters.search).exactPhrases) > 0
    /\ Len(parseSearchTerms(activeFilters.search).andGroups) > 1
    /\ KeptRows # {}
    /\ KeptRows # {row.originalIndex : row \in CachedRows}

\* ---- C2 ----------------------------------------------------------------

\* The column condition of the claim for a row: for every column with selected
\* values, the row's cell text in that column is one of them.
C2_Matches(row, columns) ==
    \A c \in DOMAIN columns :
        Len(columns[c]) > 0 =>
            /\ c < Len(row.cells)
            /\ \E v \in 1..Len(columns[c]) : row.cells[c + 1].text = columns[c][v]

\* C2: of the rows that pass the search, filterTable keeps those whose cell
\* text equals, in every column with selected values, one of the selected values.
C2_ColumnFiltersKeepExactMatches ==
    KeptRows = {row.originalIndex : row \in
                   {r \in CachedRows :
                       /\ RowMatchesSearch(r, parseSearchTerms(activeFilters.search))
                       /\ C2_Matches(r, activeFilters.columns)}}

\* ---- C3 ----------------------------------------------------------------

\* A step changes the search string, a column filter set, the sort state or
\* the page size.
C3_Changes ==
    \/ activeFilters' # activeFilters
    \/ sortState' # sortState
    \/ paginationState'.itemsPerPage # paginationState.itemsPerPage

\* C3: every operation that changes the search string, a column filter set,
\* the sort state or the page size leaves currentPage = 1.
C3_ChangeResetsPage == [][C3_Changes => paginationState'.currentPage = 1]_vars

\* ---- C4 ----------------------------------------------------------------

\* C4: with pagination enabled, totalPages is max(1, ceil(visibleCount /
\* itemsPerPage)) after every run of filterTable, also when no row is left.
C4_TotalPages ==
    paginationState.enabled =>
        paginationState.totalPages
            = Max(1, Ceil(VisibleCount, paginationState.itemsPerPage))

\* ---- C5 ----------------------------------------------------------------

\* The first index of the page window, and the index after its last row.
C5_Start == (paginationState.currentPage - 1) * paginationState.itemsPerPage

C5_End == Min(paginationState.currentPage * paginationState.itemsPerPage, VisibleCount)

\* C5: with pagination enabled and a row passing the filters, the rows
\* displayed are those at the indices [(currentPage-1)*itemsPerPage,
\* currentPage*itemsPerPage) of the filtered and sorted sequence, and the range
\* reported is startResult = (currentPage-1)*itemsPerPage + 1 to endResult =
\* min(currentPage*itemsPerPage, visibleCount), with startResult <= endResult;
\* with pagination disabled every row passing the filters is displayed.
C5_PageWindow ==
    /\ (paginationState.enabled /\ VisibleCount > 0) =>
           /\ display = [k \in 1..(C5_End - C5_Start) |-> cache.filteredRowData[C5_Start + k]]
           /\ controls.present
           /\ controls.startResult = C5_Start + 1
           /\ controls.endResult = C5_End
           /\ controls.startResult <= controls.endResult
    /\ ~paginationState.enabled =>
           /\ Range(display) = KeptRows
           /\ Len(display) = VisibleCount

\* The last page of a sorted table holds fewer rows than a page can.
C5_Witness ==
    /\ paginationState.enabled
    /\ sortState.direction = "desc"
    /\ paginationState.currentPage = 3
    /\ Len(display) = 1
    /\ controls.startResult = 5
    /\ controls.endResult = 5

\* ---- C6 ----------------------------------------------------------------

\* The largest page number requested of filterTable.
MaxRequestedPage == 4

\* What filterTable leaves when it runs in the current state with currentPage
\* set to page.
C6_Run(page) ==
    filterTable(cache, activeFilters, sortState,
                [paginationState EXCEPT !.currentPage = page])

\* The run r of filterTable, asked for a page beyond the last page of a table
\* with visible rows, has made page 1 the current page and has displayed it.
C6_Reset(r, page) ==
    (/\ paginationState.enabled
     /\ Len(r.filteredRowData) > 0
     /\ page > Ceil(Len(r.filteredRowData), paginationState.itemsPerPage)) =>
        /\ r.paginationState.currentPage = 1
        /\ r.display = SubSeq(r.filteredRowData, 1,
                              Min(paginationState.itemsPerPage, Len(r.filteredRowData)))

\* C6: when filterTable runs with pagination enabled, a visible row and
\* currentPage beyond the new totalPages, currentPage becomes 1 and page 1 is
\* displayed; it is not clamped to totalPages.
C6_PageBeyondLastResets ==
    \A page \in 1..MaxRequestedPage : C6_Reset(C6_Run(page), page)

\* A link to page 9 of a table of three pages.
C6_LinkBeyondLastPage == <<"?">> \o PageKey \o <<"=", "9">>

\* The widget opened through that link shows page 1 of 3.
C6_Witness ==
    /\ Widget(PagedConfig, Construct(PagedConfig, C6_LinkBeyondLastPage))
    /\ paginationState.totalPages = 3
    /\ paginationState.currentPage = 1
    /\ display = <<0, 1>>

\* ---- C7 ----------------------------------------------------------------

\* The sort state the claim gives for activating column c.
C7_Toggled(sort, c) ==
    IF sort = [columnIndex |-> Some(c), direction |-> "asc"]
    THEN [columnIndex |-> Some(c), direction |-> "desc"]
    ELSE IF sort = [columnIndex |-> Some(c), direction |-> "desc"]
    THEN [columnIndex |-> Null, direction |-> NoDirection]
    ELSE [columnIndex |-> Some(c), direction |-> "asc"]

\* sortTable(c) leaves the sort state the claim gives, for every header c.
C7_Toggles ==
    \A c \in 0..(Len(config.headers) - 1) :
        SortStateAfter(cache, sortState, c) = C7_Toggled(sortState, c)

\* C7 as stated: in every state sortTable(c) is the three-state toggle
\* (c, asc), then (c, desc), then (null, null), and columnIndex is null iff
\* direction is null.
C7_ThreeStateToggle ==
    /\ C7_Toggles
    /\ sortState.columnIndex = Null <=> sortState.direction = NoDirection

\* C7, amended: on a table that has a tbody sortTable(c) is the three-state
\* toggle; without one it leaves the sort state as it is; and in every state
\* columnIndex is null iff direction is null.
C7_ThreeStateToggleWithBody ==
    /\ cache.tbody => C7_Toggles
    /\ ~cache.tbody =>
           \A c \in 0..(Len(config.headers) - 1) :
               SortStateAfter(cache, sortState, c) = sortState
    /\ sortState.columnIndex = Null <=> sortState.direction = NoDirection

\* A column was activated twice.
C7_Witness ==
    /\ cache.tbody
    /\ sortState = [columnIndex |-> Some(1), direction |-> "desc"]

\* ---- C8 ----------------------------------------------------------------

\* C8: while no sort is active the filtered sequence is in strictly ascending
\* originalIndex order.
C8_UnsortedIsOriginalOrder ==
    sortState.direction = NoDirection =>
        \A i, j \in 1..VisibleCount :
            i < j => cache.filteredRowData[i] < cache.filteredRowData[j]

\* No sort is active and a search keeps three rows with a gap between them.
C8_Witness ==
    /\ sortState.direction = NoDirection
    /\ activeFilters.search = sFire
    /\ cache.filteredRowData = <<0, 2, 4>>

\* ---- C9 ----------------------------------------------------------------

\* The link that generateFilterURL returns in the current state.
FilterUrl == generateFilterURL(activeFilters, columnFilters, paginationState)

\* The widget w has the filters and the pagination state of the current state.
C9_Same(w) ==
    /\ w.activeFilters.search = activeFilters.search
    /\ DOMAIN w.activeFilters.columns = DOMAIN activeFilters.columns
    /\ \A c \in DOMAIN activeFilters.columns :
           Range(w.activeFilters.columns[c]) = Range(activeFilters.columns[c])
    /\ w.paginationState.currentPage = paginationState.currentPage
    /\ w.paginationState.itemsPerPage = paginationState.itemsPerPage
    /\ w.paginationState.totalPages = paginationState.totalPages

\* C9: with pagination enabled, a fresh widget on the same table and
\* configuration, opened with the link of generateFilterURL, has the same
\* activeFilters and the same currentPage, itemsPerPage and totalPages.
C9_RoundTrip ==
    paginationState.enabled => C9_Same(Construct(config, LocationSearch(FilterUrl)))

\* ---- C10 ---------------------------------------------------------------

\* The parameters of the query of the link, as a URL parser reads them.
C10_Query == URLSearchParams(LocationSearch(FilterUrl))

\* How many parameters of the link have this name and this value.
C10_Count(query, key, value) ==
    Cardinality({k \in 1..Len(query) : query[k] = [key |-> key, value |-> value]})

\* The values of the parameters of the link with this name.
C10_Values(query, key) ==
    {query[k].value : k \in {i \in 1..Len(query) : query[i].key = key}}

\* The configured display name of the filter of column c.
C10_Name(c) == FindFilterByIndex(columnFilters, c)[1].columnName

\* The link has a page parameter.
C10_HasPage == paginationState.enabled /\ paginationState.currentPage > 1

\* The parameters query are those the claim gives for the current state.
C10_Holds(query) ==
    /\ IF activeFilters.search # <<>>
       THEN /\ C10_Count(query, SearchKey, activeFilters.search) = 1
            /\ C10_Values(query, SearchKey) = {activeFilters.search}
       ELSE C10_Values(query, SearchKey) = {}
    /\ \A c \in DOMAIN activeFilters.columns :
           \A v \in 1..Len(activeFilters.columns[c]) :
               C10_Count(query, C10_Name(c), activeFilters.columns[c][v]) = 1
    /\ \A k \in 1..Len(query) :
           query[k].key \notin {SearchKey, PageKey} =>
               \E c \in DOMAIN activeFilters.columns :
                   /\ query[k].key = C10_Name(c)
                   /\ Includes(activeFilters.columns[c], query[k].value)
    /\ IF C10_HasPage
       THEN /\ C10_Count(query, PageKey, IntToString(paginationState.currentPage)) = 1
            /\ C10_Values(query, PageKey) = {IntToString(paginationState.currentPage)}
       ELSE C10_Values(query, PageKey) = {}
    /\ (activeFilters.search = <<>> /\ DOMAIN activeFilters.columns = {} /\ ~C10_HasPage)
           => FilterUrl = BaseUrl

\* C10: the link of generateFilterURL has a search parameter with the raw
\* search string iff the string is not empty, one parameter per (column, value)
\* pair keyed by the column's configured name and no other column parameter,
\* and a page parameter with currentPage iff pagination is enabled and
\* currentPage > 1; when none applies it is the base URL without a query.
C10_FilterUrlParameters == C10_Holds(C10_Query)

\* A search, two values of one column and page 2 are all in the link.
C10_Witness ==
    /\ activeFilters.search # <<>>
    /\ \E c \in DOMAIN activeFilters.columns : Len(activeFilters.columns[c]) = 2
    /\ paginationState.enabled
    /\ paginationState.currentPage = 2

(***************************************************************************)
(* Copying the link (copyFilterURL, fallbackCopyURL)                       *)
(***************************************************************************)

\* The largest number of clipboard writes in flight.
MaxPendingWrites == 2

\* The largest number of reset timers of the copy-link button running at once.
MaxResetTimers == 2

\* showCopyFeedback(success): on success the button shows "Copied!", is
\* disabled, and a timer of 2000 ms is set whose callback closes over the
\* innerHTML the button had; on failure an alert, the button as it was.
showCopyFeedback(button, success) ==
    IF success
    THEN [label    |-> CopiedLabel,
          disabled |-> TRUE,
          timers   |-> Append(button.timers, [originalHTML |-> button.label])]
    ELSE button

\* Whether showCopyFeedback(success) can run within the bound on the timers.
TimerFree(success) == success => Len(copyButton.timers) < MaxResetTimers

\* fallbackCopyURL(url): the url it was called with, and the feedback it shows:
\* "copied" when document.execCommand returns true, "failed" when it returns
\* false or throws.
fallbackCopyURL(writes, url, successful) ==
    [writes      |-> writes,
     fallbackUrl |-> Some(url),
     feedback    |-> IF successful THEN "copied" ELSE "failed"]

\* A copy operation changes the clipboard record and the copy-link button,
\* and nothing else.
Copied(copies, button) ==
    /\ clipboard' = copies
    /\ copyButton' = button
    /\ fault' = FALSE
    /\ UNCHANGED <<config, cache, columnFilters, activeFilters, sortState,
                   paginationState, display, controls, messages, noResults, pills>>

\* copyFilterURL in a browser with navigator.clipboard.writeText: the promise
\* of the write is pending, its callbacks closed over url.  The record keeps
\* the filters and the pagination state of the click next to it.
copyFilterURL ==
    /\ Len(clipboard.writes) < MaxPendingWrites
    /\ Copied([clipboard EXCEPT !.writes =
                  Append(@, [url        |-> FilterUrl,
                             filters    |-> activeFilters,
                             pagination |-> paginationState])],
              copyButton)

\* The "click" listener of the copy-link button, which is shown while there
\* are pills and takes no click while it is disabled.
CopyClick ==
    /\ pills.copyButton
    /\ ~copyButton.disabled
    /\ copyFilterURL

\* copyFilterURL in a browser without the clipboard API.
copyFilterURLWithoutApi(successful) ==
    /\ TimerFree(successful)
    /\ Copied(fallbackCopyURL(clipboard.writes, FilterUrl, successful),
              showCopyFeedback(copyButton, successful))

\* The sequence without its k-th element.
Without(seq, k) == SubSeq(seq, 1, k - 1) \o SubSeq(seq, k + 1, Len(seq))

\* The k-th pending write resolves: showCopyFeedback(true).
WriteResolved(k) ==
    /\ TimerFree(TRUE)
    /\ Copied([clipboard EXCEPT !.writes = Without(@, k), !.feedback = "written"],
              showCopyFeedback(copyButton, TRUE))

\* A catch callback that generates the link again when the write rejects.
RejectedUrlGeneratedAgain(write) == FilterUrl

\* The url that the catch callback of a write passes to fallbackCopyURL.
RejectedUrl(write) == write.url

\* The k-th pending write rejects: the catch callback calls fallbackCopyURL.
WriteRejected(k, successful) ==
    /\ TimerFree(successful)
    /\ Copied(fallbackCopyURL(Without(clipboard.writes, k),
                              RejectedUrl(clipboard.writes[k]), successful),
              showCopyFeedback(copyButton, successful))

\* The callback of the oldest reset timer runs (the timers have one delay, so
\* they run in the order they were set): the button gets the innerHTML the
\* callback closed over and is enabled.
TimerFired ==
    /\ copyButton.timers # <<>>
    /\ Copied(clipboard, [label    |-> Head(copyButton.timers).originalHTML,
                          disabled |-> FALSE,
                          timers   |-> Tail(copyButton.timers)])

InitCopy ==
    \E search \in LocationSearches :
        Widget(PagedConfig, Construct(PagedConfig, search))

NextCopy ==
    \/ copyFilterURL
    \/ \E successful \in BOOLEAN : copyFilterURLWithoutApi(successful)
    \/ \E k \in 1..Len(clipboard.writes) : WriteResolved(k)
    \/ \E k \in 1..Len(clipboard.writes), successful \in BOOLEAN :
           WriteRejected(k, successful)
    \/ TimerFired
    \/ ClearInputClick
    \/ clearAllFilters
    \/ \E newPage \in controls.pageLinks : PageClick(newPage)

SpecCopy == InitCopy /\ [][NextCopy]_vars

\* The copy-link button under clicks alone, on the pages whose link leaves
\* the button shown.
InitFeedback ==
    \E search \in LocationSearches \cup {<<"?">> \o SearchKey \o <<"=">> \o sFire,
                                         <<"?">> \o sDept \o <<"=">> \o sIT} :
        /\ Construct(PagedConfig, search).pills.copyButton
        /\ Widget(PagedConfig, Construct(PagedConfig, search))

NextFeedback ==
    \/ CopyClick
    \/ \E k \in 1..Len(clipboard.writes) : WriteResolved(k)
    \/ \E k \in 1..Len(clipboard.writes), successful \in BOOLEAN :
           WriteRejected(k, successful)
    \/ TimerFired

SpecFeedback == InitFeedback /\ [][NextFeedback]_vars
\* ---- C11 ---------------------------------------------------------------

\* A page value that is a positive decimal number.
C11_IsPageNumber(value) ==
    /\ value # <<>>
    /\ \A k \in 1..Len(value) : IsDigit(value[k])
    /\ ParseInt(value)[1] > 0

\* A parameter of the link that the claim lets take effect: the search, a page
\* number while pagination is enabled, or a configured column name with one of
\* the options of its dropdown.
C11_WellFormed(p) ==
    \/ p.key = SearchKey
    \/ p.key = PageKey /\ paginationState.enabled /\ C11_IsPageNumber(p.value)
    \/ /\ p.key \notin {SearchKey, PageKey}
       /\ \E k \in 1..Len(columnFilters) :
              /\ columnFilters[k].columnName = p.key
              /\ Includes(columnFilters[k].options, p.value)

\* The filters and the pagination state of two widgets are the same.
C11_Same(a, b) ==
    /\ a.activeFilters = b.activeFilters
    /\ a.paginationState = b.paginationState

\* C11: the widget opened through a link has the filters and the pagination
\* state of the widget opened through the link without its malformed
\* parameters: unknown keys, values that are no option of the named column,
\* page values that are no positive number, and a page while pagination is
\* disabled.
C11_MalformedParametersIgnored ==
    C11_Same(Construct(config, LinkSearch(config.linkParams)),
             Construct(config, LinkSearch(SelectSeq(config.linkParams, C11_WellFormed))))

\* The same with a page value counted as well formed as soon as parseInt reads
\* a positive number from its start.
C11_ReadsPage(p) ==
    \/ C11_WellFormed(p)
    \/ p.key = PageKey /\ paginationState.enabled
                       /\ ParseInt(p.value) # NaN /\ ParseInt(p.value)[1] > 0

C11_UnreadParametersIgnored ==
    C11_Same(Construct(config, LinkSearch(config.linkParams)),
             Construct(config, LinkSearch(SelectSeq(config.linkParams, C11_ReadsPage))))

\* ---- C12 ---------------------------------------------------------------

\* The rows of the cache that have no cell at a column with active values.
C12_RowsWithoutFilteredCell ==
    {row \in CachedRows :
        \E c \in DOMAIN activeFilters.columns :
            Len(activeFilters.columns[c]) > 0 /\ c >= Len(row.cells)}

\* C12: filterTable hides every row that has no cell at a column for which a
\* non-empty filter set is active: no such row is among the filtered rows and
\* none is displayed.
C12_AbsentCellHidden ==
    \A row \in C12_RowsWithoutFilteredCell :
        /\ row.originalIndex \notin KeptRows
        /\ row.originalIndex \notin Range(display)

\* ---- C13 ---------------------------------------------------------------

\* The number of double quotes of a query.
C13_Quotes(query) == Cardinality({k \in 1..Len(query) : query[k] = "\""})

\* The query is one quoted phrase followed by unquoted terms, all in one AND
\* group: parseSearchTerms gives one phrase and one group that starts with it.
C13_PhraseThenTerms(query, terms) ==
    /\ C13_Quotes(query) = 2
    /\ Trim(query)[1] = "\""
    /\ Len(terms.exactPhrases) = 1
    /\ Len(terms.andGroups) = 1
    /\ Len(terms.andGroups[1]) >= 2
    /\ terms.andGroups[1][1] = terms.exactPhrases[1]

\* The rows that contain the phrase and at least one of the terms after it.
C13_Expected(terms) ==
    {row \in CachedRows :
        /\ StrIncludes(row.fullTextLower, terms.exactPhrases[1])
        /\ \E t \in 2..Len(terms.andGroups[1]) :
               StrIncludes(row.fullTextLower, terms.andGroups[1][t])}

\* C13: for a quoted phrase followed by unquoted terms in the same AND group a
\* row is kept iff it contains the phrase and at least one of the terms; a row
\* with the phrase but none of the terms is hidden.
C13_PhraseAndOneOfTerms ==
    C13_PhraseThenTerms(activeFilters.search, parseSearchTerms(activeFilters.search)) =>
        KeptRows = {row.originalIndex :
                       row \in C13_Expected(parseSearchTerms(activeFilters.search))}

\* ---- C14 ---------------------------------------------------------------

\* The sign of a number.
C14_Sign(n) == IF n < 0 THEN -1 ELSE IF n > 0 THEN 1 ELSE 0

\* The order of two characters of an ISO date: "-" before the digits.
C14_CharRank(ch) == IF ch = "-" THEN 0 ELSE IndexFrom(DigitChars, ch, 1)

\* Lexicographic comparison of two ISO date strings.
RECURSIVE C14_Lexicographic(_, _, _)
C14_Lexicographic(s, t, k) ==
    IF k > Len(s) /\ k > Len(t) THEN 0
    ELSE IF k > Len(s) THEN -1
    ELSE IF k > Len(t) THEN 1
    ELSE IF s[k] # t[k] THEN C14_CharRank(s[k]) - C14_CharRank(t[k])
    ELSE C14_Lexicographic(s, t, k + 1)

\* The ascending comparison of the claim for two cells of column c.
C14_Tiers(aCell, bCell, c) ==
    IF c \in cache.dateColumns /\ aCell.dateValue # Null /\ bCell.dateValue # Null
    THEN C14_Lexicographic(aCell.dateValue, bCell.dateValue, 1)
    ELSE IF aCell.numericValue # Null /\ bCell.numericValue # Null
    THEN aCell.numericValue[1] - bCell.numericValue[1]
    ELSE localeCompare(aCell.text, bCell.text)

\* The comparison of the claim for two rows: equal when a cell is missing,
\* negated for the descending direction.
C14_Comparison(a, b, c, direction) ==
    IF c >= Len(a.cells) \/ c >= Len(b.cells) THEN 0
    ELSE IF direction = "asc"
    THEN C14_Sign(C14_Tiers(a.cells[c + 1], b.cells[c + 1], c))
    ELSE 0 - C14_Sign(C14_Tiers(a.cells[c + 1], b.cells[c + 1], c))

\* C14: for every two rows, every column and both directions the comparator of
\* performSort is 0 when either row has no cell in the column, else the order
\* of the ISO dates in a date column when both cells are dated, else the order
\* of the numbers when both cells are numeric, else the order of the texts;
\* descending is the negation.
C14_ComparatorTiers ==
    \A a, b \in CachedRows :
        \A c \in 0..Len(config.headers) :
            \A direction \in {"asc", "desc"} :
                C14_Sign(CompareRows(a, b, c, direction, cache.dateColumns))
                    = C14_Comparison(a, b, c, direction)

\* The table is sorted on a date column in which a dated and an undated cell
\* were compared by their texts, and a row without a cell in that column was
\* compared as equal.
C14_Witness ==
    /\ sortState.direction = "desc"
    /\ sortState.columnIndex # Null
    /\ sortState.columnIndex[1] \in cache.dateColumns
    /\ \E a, b \in CachedRows :
           /\ sortState.columnIndex[1] < Len(a.cells)
           /\ sortState.columnIndex[1] < Len(b.cells)
           /\ a.cells[sortState.columnIndex[1] + 1].dateValue # Null
           /\ b.cells[sortState.columnIndex[1] + 1].dateValue = Null
           /\ C14_Comparison(a, b, sortState.columnIndex[1], "desc") # 0
    /\ \E a \in CachedRows : sortState.columnIndex[1] >= Len(a.cells)
    /\ VisibleCount = Len(cache.rowData)

\* ---- C15 ---------------------------------------------------------------

\* Column c is no date column and every row has a cell with a number in it.
C15_IsNumericColumn(c) ==
    /\ c \notin cache.dateColumns
    /\ \A row \in CachedRows :
           c < Len(row.cells) /\ row.cells[c + 1].numericValue # Null

\* The number in column c of the k-th filtered row.
C15_Number(k, c) ==
    cache.rowData[cache.filteredRowData[k] + 1].cells[c + 1].numericValue[1]

\* C15: while the table is sorted on a numeric column the filtered rows are in
\* non-decreasing order of their numbers when the direction is ascending and in
\* non-increasing order when it is descending.
C15_NumericOrder ==
    (sortState.columnIndex # Null /\ C15_IsNumericColumn(sortState.columnIndex[1])) =>
        \A k \in 1..(VisibleCount - 1) :
            IF sortState.direction = "asc"
            THEN C15_Number(k, sortState.columnIndex[1])
                     <= C15_Number(k + 1, sortState.columnIndex[1])
            ELSE C15_Number(k, sortState.columnIndex[1])
                     >= C15_Number(k + 1, sortState.columnIndex[1])

\* The quantities 10, 2, 33, 2 sorted ascending: 2, 2, 10, 33.
C15_Witness ==
    /\ sortState = [columnIndex |-> Some(1), direction |-> "asc"]
    /\ C15_IsNumericColumn(1)
    /\ cache.filteredRowData = <<1, 3, 0, 2>>
    /\ [k \in 1..4 |-> C15_Number(k, 1)] = <<2, 2, 10, 33>>

\* ---- C16 ---------------------------------------------------------------

\* The numbers written in a text, in order: its maximal runs of digits.
RECURSIVE C16_Numbers(_, _)
C16_Numbers(text, i) ==
    IF i > Len(text) THEN <<>>
    ELSE IF IsDigit(text[i])
    THEN <<ReadDigits(text, i, 0)>> \o C16_Numbers(text, SkipDigits(text, i))
    ELSE C16_Numbers(text, i + 1)

\* Year, month and day of a date text: the year is written first when the text
\* starts with four digits, last otherwise.
C16_YearMonthDay(text) ==
    IF SkipDigits(text, 1) = 5
    THEN C16_Numbers(text, 1)
    ELSE <<C16_Numbers(text, 1)[3], C16_Numbers(text, 1)[2], C16_Numbers(text, 1)[1]>>

\* The text is a calendar date, day-month-year or year-month-day, with one or
\* two digits for day and month and four for the year.
C16_IsCalendarDate(text) ==
    /\ Len(C16_Numbers(text, 1)) = 3
    /\ \/ MatchDate(text, {1, 2}, {1, 2}, {4}) # <<>>
       \/ MatchDate(text, {4}, {1, 2}, {1, 2}) # <<>>
    /\ C16_YearMonthDay(text)[2] \in 1..12
    /\ C16_YearMonthDay(text)[3] \in 1..31

\* Column c is a date column in which every row has a calendar date.
C16_IsDateColumn(c) ==
    /\ StrIncludes(ToLowerCase(config.headers[c + 1]), <<"d","a","t","e">>)
    /\ \A row \in CachedRows :
           c < Len(row.cells) /\ C16_IsCalendarDate(row.cells[c + 1].text)

\* The day of the k-th filtered row in column c, as a number that grows with
\* time.
C16_Day(k, c) ==
    LET Of(ymd) == ymd[1] * 10000 + ymd[2] * 100 + ymd[3]
    IN  Of(C16_YearMonthDay(cache.rowData[cache.filteredRowData[k] + 1].cells[c + 1].text))

\* C16: while the table is sorted ascending on a date column whose cells are
\* all calendar dates, the filtered rows are in chronological order, whichever
\* of the two formats each cell is written in.
C16_ChronologicalOrder ==
    (/\ sortState.columnIndex # Null
     /\ sortState.direction = "asc"
     /\ C16_IsDateColumn(sortState.columnIndex[1])) =>
        \A k \in 1..(VisibleCount - 1) :
            C16_Day(k, sortState.columnIndex[1]) <= C16_Day(k + 1, sortState.columnIndex[1])

\* The dates 24/01/2024, 01/12/2023, 2024-03-01 and 1-2-2024 sorted ascending:
\* 1 December 2023, 24 January, 1 February and 1 March 2024.
C16_Witness ==
    /\ sortState = [columnIndex |-> Some(0), direction |-> "asc"]
    /\ C16_IsDateColumn(0)
    /\ cache.filteredRowData = <<1, 0, 3, 2>>
    /\ [k \in 1..4 |-> C16_Day(k, 0)] = <<20231201, 20240124, 20240201, 20240301>>

\* ---- C17 ---------------------------------------------------------------

\* The rows that filterTable keeps for the search string query, the column
\* filters being as they are.
KeptFor(query) ==
    Range(VisibleRows(cache.rowData, [activeFilters EXCEPT !.search = query]))

\* String.prototype.toUpperCase on the characters of the model.
C17_ToUpperCase(s) ==
    [i \in 1..Len(s) |->
        IF IndexFrom(LowerChars, s[i], 1) > 0
        THEN UpperChars[IndexFrom(LowerChars, s[i], 1)]
        ELSE s[i]]

\* C17: the rows kept for the search string are the rows kept for the same
\* string in lowercase and for the same string in uppercase.
C17_CaseInsensitive ==
    /\ KeptRows = KeptFor(ToLowerCase(activeFilters.search))
    /\ KeptRows = KeptFor(C17_ToUpperCase(activeFilters.search))

\* The same for the search strings that do not hold the text parseSearchTerms
\* puts in the place of a quoted phrase.
C17_CaseInsensitiveWithoutPlaceholder ==
    ~StrIncludes(activeFilters.search, Placeholder(0)) => C17_CaseInsensitive

\* ---- C18 ---------------------------------------------------------------

\* The query with every run of whitespace made one blank longer.
RECURSIVE C18_Widen(_, _)
C18_Widen(query, i) ==
    IF i > Len(query) THEN <<>>
    ELSE IF IsSpace(query[i]) /\ (i = 1 \/ ~IsSpace(query[i - 1]))
    THEN <<" ", query[i]>> \o C18_Widen(query, i + 1)
    ELSE <<query[i]>> \o C18_Widen(query, i + 1)

\* The query with every run of whitespace replaced by one blank.
RECURSIVE C18_Narrow(_, _)
C18_Narrow(query, i) ==
    IF i > Len(query) THEN <<>>
    ELSE IF IsSpace(query[i]) /\ i > 1 /\ IsSpace(query[i - 1])
    THEN C18_Narrow(query, i + 1)
    ELSE <<query[i]>> \o C18_Narrow(query, i + 1)

\* C18: the rows kept for the search string are the rows kept for the same
\* string with longer runs of whitespace and with runs of one blank.
C18_WhitespaceInsignificant ==
    /\ KeptRows = KeptFor(C18_Widen(activeFilters.search, 1))
    /\ KeptRows = KeptFor(C18_Narrow(activeFilters.search, 1))

\* The same for the search strings whose quoted phrases hold no whitespace.
C18_WhitespaceOutsidePhrases ==
    (\A p \in 1..Len(parseSearchTerms(activeFilters.search).exactPhrases) :
        ~Includes(parseSearchTerms(activeFilters.search).exactPhrases[p], " "))
    => C18_WhitespaceInsignificant

\* ---- C19 ---------------------------------------------------------------

\* The query without its pairs of adjacent double quotes.
RECURSIVE C19_WithoutEmptyQuotes(_, _)
C19_WithoutEmptyQuotes(query, i) ==
    IF i > Len(query) THEN <<>>
    ELSE IF i < Len(query) /\ query[i] = "\"" /\ query[i + 1] = "\""
    THEN C19_WithoutEmptyQuotes(query, i + 2)
    ELSE <<query[i]>> \o C19_WithoutEmptyQuotes(query, i + 1)

\* The quotes of the query are empty quoted strings and nothing else.
C19_HasOnlyEmptyQuotes(query) ==
    /\ Includes(query, "\"")
    /\ ~Includes(C19_WithoutEmptyQuotes(query, 1), "\"")

\* C19: a search string with empty quoted strings keeps the rows that the
\* string without them keeps; the string of empty quotes alone keeps every row.
C19_EmptyQuotesIgnored ==
    C19_HasOnlyEmptyQuotes(activeFilters.search) =>
        KeptRows = KeptFor(C19_WithoutEmptyQuotes(activeFilters.search, 1))

\* ---- C20 ---------------------------------------------------------------

\* The page numbers of a page number list, without its ellipsis markers.
C20_Numbers(pages) == SelectSeq(pages, LAMBDA p : p # Ellipsis)

\* What the claim says of the list pages for the page currentPage of totalPages.
C20_Holds(pages, currentPage, totalPages) ==
    IF totalPages <= 7
    THEN pages = [i \in 1..totalPages |-> i]
    ELSE /\ \A k \in 1..(Len(C20_Numbers(pages)) - 1) :
                C20_Numbers(pages)[k] < C20_Numbers(pages)[k + 1]
         /\ Range(C20_Numbers(pages))
                = {1, totalPages}
                    \cup ((currentPage - 1)..(currentPage + 1) \cap 1..totalPages)
         /\ pages[1] # Ellipsis /\ pages[Len(pages)] # Ellipsis
         /\ \A k \in 1..(Len(pages) - 1) :
                /\ pages[k] = Ellipsis =>
                       /\ pages[k + 1] # Ellipsis
                       /\ pages[k + 1] - pages[k - 1] > 1
                /\ (pages[k] # Ellipsis /\ pages[k + 1] # Ellipsis) =>
                       pages[k + 1] - pages[k] = 1

\* C20: getPageNumbers(currentPage, totalPages) is 1..totalPages up to seven
\* pages; beyond, it is the increasing list of page 1, the last page and the
\* pages from currentPage - 1 to currentPage + 1 that exist, with an ellipsis
\* between two listed numbers iff they differ by more than 1.
C20_PageNumbers ==
    paginationState.enabled =>
        C20_Holds(getPageNumbers(paginationState.currentPage, paginationState.totalPages),
                  paginationState.currentPage, paginationState.totalPages)

\* Page 5 of more than seven: an ellipsis on either side of 4, 5, 6.
C20_Witness ==
    /\ paginationState.totalPages > 7
    /\ paginationState.currentPage = 5
    /\ display = <<4>>
    /\ getPageNumbers(paginationState.currentPage, paginationState.totalPages)
           = <<1, Ellipsis, 4, 5, 6, Ellipsis, paginationState.totalPages>>

(***************************************************************************)
(* Properties: invariants, faults and frame effects                        *)
(***************************************************************************)

\* ---- C21 ---------------------------------------------------------------

\* C21: whatever link the page is opened through and whatever operations
\* follow, currentPage is an integer >= 1, itemsPerPage an integer > 0 and
\* totalPages an integer >= 1.
C21_PaginationStateInRange ==
    /\ paginationState.currentPage \in Nat \ {0}
    /\ paginationState.itemsPerPage \in Nat \ {0}
    /\ paginationState.totalPages \in Nat \ {0}

\* The last of three pages is shown and no filter is active.
C21_Witness ==
    /\ paginationState.enabled
    /\ paginationState.currentPage = 3
    /\ paginationState.totalPages = 3
    /\ activeFilters.search = <<>>
    /\ DOMAIN activeFilters.columns = {}

\* ---- C22 ---------------------------------------------------------------

\* The filtered sequence is the one filterTable computes for the filters and
\* the sort state of the widget.
C22_FilteredForState ==
    cache.filteredRowData
        = FilteredRows(cache, VisibleRows(cache.rowData, activeFilters), sortState)

\* C22: no operation ends in an uncaught exception, sortTable(columnIndex) with
\* any integer included, and the sort state and the current page are never
\* left modified without the filtered sequence recomputed for them.
C22_SortTableCompletes ==
    /\ ~fault
    /\ C22_FilteredForState
    /\ paginationState.enabled /\ VisibleCount > 0
           => paginationState.currentPage <= paginationState.totalPages

\* ---- C23 ---------------------------------------------------------------

\* C23: on a table without tbody, after initialization and after every
\* operation, the last operation has completed, the row cache is empty, no row
\* is counted or displayed and the no-results message is shown, and a link of
\* the state can be generated.
C23_MissingBodyTolerated ==
    ~config.hasTbody =>
        /\ ~fault
        /\ cache.rowData = <<>>
        /\ VisibleCount = 0
        /\ display = <<>>
        /\ noResults
        /\ SubSeq(FilterUrl, 1, Len(BaseUrl)) = BaseUrl

\* A table without tbody on which a search was typed.
C23_Witness ==
    /\ ~config.hasTbody
    /\ activeFilters.search = sZz
    /\ pills.section
    /\ noResults

\* ---- C24 ---------------------------------------------------------------

\* The link of the state in which the write was started.
C24_UrlAtClick(write) == generateFilterURL(write.filters, columnFilters, write.pagination)

\* C24: a step of copyFilterURL, of a resolving or rejecting clipboard write or
\* of fallbackCopyURL leaves activeFilters, sortState, paginationState and the
\* row cache unchanged, and a rejecting write calls fallbackCopyURL with the
\* link generated when the write was started.
C24_CopyLeavesState ==
    [][/\ clipboard' # clipboard
           => UNCHANGED <<activeFilters, sortState, paginationState, cache>>
       /\ \A k \in 1..Len(clipboard.writes) :
              (\E successful \in BOOLEAN : WriteRejected(k, successful))
                  => clipboard'.fallbackUrl = Some(C24_UrlAtClick(clipboard.writes[k]))]_vars

\* fallbackCopyURL was called after a rejected write with a link that is no
\* longer the link of the state: filter operations ran in between.
C24_Witness ==
    /\ clipboard.fallbackUrl # Null
    /\ clipboard.fallbackUrl # Some(FilterUrl)
    /\ clipboard.feedback = "copied"
    /\ clipboard.writes = <<>>
    /\ activeFilters = InitialFilters
    /\ paginationState.currentPage = 2

\* ---- C25 ---------------------------------------------------------------

\* The rows of the cache are in ascending originalIndex, from 0.
C25_InOriginalOrder ==
    \A k \in 1..Len(cache.rowData) : cache.rowData[k].originalIndex = k - 1

\* C25: the row cache is built once: its rows stay in ascending originalIndex
\* and no operation changes cache.rowData (its length, the order of its rows,
\* any cell's text, numericValue or dateValue), cache.columnValues or
\* cache.dateColumns.
C25_CacheFrozen ==
    /\ []C25_InOriginalOrder
    /\ [][/\ cache'.rowData = cache.rowData
          /\ cache'.columnValues = cache.columnValues
          /\ cache'.dateColumns = cache.dateColumns]_vars

\* The dated table sorted descending by its date column, with a filter active:
\* the filtered sequence is reordered and shortened, the cache is not.
C25_Witness ==
    /\ sortState = [columnIndex |-> Some(0), direction |-> "desc"]
    /\ cache.dateColumns # {}
    /\ Len(cache.filteredRowData) < Len(cache.rowData)
    /\ Len(cache.filteredRowData) > 1
    /\ cache.filteredRowData[1] > cache.filteredRowData[2]
    /\ Len(cache.rowData) = Len(DatedRows)

\* ---- C26 ---------------------------------------------------------------

\* The headers whose trimmed text equals data-default-column ignoring case.
C26_Matching ==
    {c \in 0..(Len(config.headers) - 1) :
        /\ config.defaultColumn # <<>>
        /\ ToLowerCase(Trim(config.headers[c + 1])) = ToLowerCase(config.defaultColumn)}

\* The direction that data-order asks for.
C26_Direction ==
    IF ToLowerCase(config.defaultOrder) = <<"d","e","s","c","e","n","d","i","n","g">>
    THEN "desc" ELSE "asc"

\* The displayed rows are in the order of the sort state.
C26_DisplayedInOrder ==
    \A i \in 1..Len(display), j \in 1..Len(display) :
        i < j => CompareRows(cache.rowData[display[i] + 1], cache.rowData[display[j] + 1],
                             sortState.columnIndex[1], sortState.direction,
                             cache.dateColumns) <= 0

\* The state after initialization.
C26_AfterInit ==
    /\ ~fault
    /\ IF C26_Matching = {}
       THEN sortState = InitialSort
       ELSE /\ sortState.columnIndex # Null
            /\ sortState.columnIndex[1] \in C26_Matching
            /\ sortState.direction = C26_Direction
            /\ cache.filteredRowData
                   = performSort([k \in 1..Len(cache.rowData) |-> k - 1], cache.rowData,
                                 sortState.columnIndex[1], sortState.direction,
                                 cache.dateColumns)
            /\ display = SubSeq(cache.filteredRowData, 1, paginationState.itemsPerPage)
            /\ C26_DisplayedInOrder

\* An activation of the sorted column continues the cycle: ascending to
\* descending, descending to unsorted.
C26_Continues ==
    \A c \in 0..(Len(config.headers) - 1) :
        (sortState.columnIndex = Some(c) /\ sortTable(c))
            => sortState' = IF sortState.direction = "asc"
                            THEN [columnIndex |-> Some(c), direction |-> "desc"]
                            ELSE InitialSort

\* C26: when data-default-column equals a header's trimmed text ignoring case,
\* initialization leaves sortState = (that header's index, "desc" if data-order
\* is "descending" ignoring case, else "asc") and displays the rows in that
\* order, and a later activation of that column continues the cycle from that
\* state; when no header matches or no column is configured, sortState stays
\* (null, null) and initialization completes.
C26_DefaultSort == C26_AfterInit /\ [][C26_Continues]_vars

\* The table opened with the default sort by year, descending, and its year
\* header then activated once: the table is unsorted.
C26_Witness ==
    /\ config.defaultColumn = <<"y","e","a","r">>
    /\ config.defaultOrder = <<"D","e","s","c","e","n","d","i","n","g">>
    /\ sortState = InitialSort
    /\ display = <<0, 1>>

\* ---- C27 ---------------------------------------------------------------

\* The column filter sets that the claim describes after
\* clearColumnFilter(c, v); v is Null when the value is omitted.
C27_Expected(columns, c, v) ==
    LET Others(rest) ==
            IF rest = <<>> THEN [k \in DOMAIN columns \ {c} |-> columns[k]]
            ELSE [k \in DOMAIN columns |-> IF k = c THEN rest ELSE columns[k]]
    IN  IF v = Null THEN [k \in DOMAIN columns \ {c} |-> columns[k]]
        ELSE IF c \notin DOMAIN columns THEN columns
        ELSE IF v \notin Range(columns[c]) THEN columns
        ELSE Others(SelectSeq(columns[c], LAMBDA o : o # v))

\* C27: clearColumnFilter(c, v) removes v alone from the set of column c,
\* deleting the entry when v was its last value, clearColumnFilter(c) deletes
\* the entry of c, and a value or column that is not active leaves the column
\* filters as they were; the search string, the sort state and the page size
\* are unchanged.
C27_ClearColumnFilter ==
    [][\A c \in 0..Len(config.headers), v \in CallerValues :
           clearColumnFilter(c, v)
               => /\ activeFilters'.columns = C27_Expected(activeFilters.columns, c, v)
                  /\ activeFilters'.search = activeFilters.search
                  /\ sortState' = sortState
                  /\ paginationState'.itemsPerPage = paginationState.itemsPerPage]_vars

\* One of two department values was removed while a search, two year values
\* and a sort were active.
C27_Witness ==
    /\ activeFilters.search = sFire
    /\ DOMAIN activeFilters.columns = {1, 2}
    /\ activeFilters.columns[1] = <<sIT>>
    /\ activeFilters.columns[2] = <<s2024, s2023>>
    /\ sortState.direction = "desc"

\* ---- C28 ---------------------------------------------------------------

\* Every cached row, ordered by the sort if one is active.
C28_EveryRow(sort) ==
    LET All(rows) ==
            IF sort.direction # NoDirection /\ sort.columnIndex # Null
            THEN performSort(rows, cache.rowData, sort.columnIndex[1], sort.direction,
                             cache.dateColumns)
            ELSE rows
    IN  All([k \in 1..Len(cache.rowData) |-> k - 1])

\* C28: clearAllFilters empties the search string and the column filters and
\* sets currentPage to 1, leaves the sort state and the page size unchanged,
\* and leaves every cached row in the filtered sequence, in the order of the
\* sort that is still active.
C28_ClearAllFilters ==
    [][clearAllFilters
           => /\ activeFilters'.search = <<>>
              /\ DOMAIN activeFilters'.columns = {}
              /\ paginationState'.currentPage = 1
              /\ sortState' = sortState
              /\ paginationState'.itemsPerPage = paginationState.itemsPerPage
              /\ cache'.filteredRowData = C28_EveryRow(sortState)]_vars

\* No filter is left on the sorted, paged table: every row is in the filtered
\* sequence and no pill is shown.
C28_Witness ==
    /\ activeFilters = InitialFilters
    /\ sortState = [columnIndex |-> Some(1), direction |-> "desc"]
    /\ paginationState.enabled
    /\ paginationState.currentPage = 1
    /\ Len(cache.filteredRowData) = Len(TableRows)
    /\ cache.filteredRowData # [k \in 1..Len(TableRows) |-> k - 1]
    /\ pills.list = <<>>

\* ---- C29 ---------------------------------------------------------------

\* The data-page values of the page buttons in the document, enabled or not.
C29_Buttons ==
    controls.pageLinks
        \cup DisabledPageLinks(paginationState.currentPage, paginationState.totalPages)

C30_Called ==
    (IF activeFilters.search # <<>>
     THEN {[column |-> Null, label |-> activeFilters.search]}
     ELSE {})
    \cup UNION {{[column |-> Some(c), label |-> activeFilters.columns[c][i]] :
                    i \in 1..Len(activeFilters.columns[c])} :
                c \in DOMAIN activeFilters.columns}

\* C30: after initialization and after every operation the pills rendered are
\* exactly those of the active filters, each once, and the applied-filters
\* section and the copy-link button are visible iff there is a pill.
C30_PillsMatchFilters ==
    /\ Range(pills.list) = C30_Called
    /\ Len(pills.list) = Cardinality(C30_Called)
    /\ pills.section = (pills.list # <<>>)
    /\ pills.copyButton = (pills.list # <<>>)

\* The search pill and the pills of three column values are shown.
C30_Witness ==
    /\ Len(pills.list) = 4
    /\ pills.list[1] = [column |-> Null, label |-> sFire]
    /\ pills.list[2].column = Some(1)
    /\ pills.list[4] = [column |-> Some(2), label |-> s2023]
    /\ pills.section
    /\ pills.copyButton

(***************************************************************************)
(* Properties: the message, the option values, the page, the comparison,   *)
(* the copy feedback, the history and the ties                             *)
(***************************************************************************)

\* ---- C31 ---------------------------------------------------------------

\* The cached rows that pass the current search and column filters.
C31_Passing ==
    {row \in CachedRows :
        /\ RowMatchesSearch(row, parseSearchTerms(activeFilters.search))
        /\ RowMatchesColumns(row, activeFilters.columns)}

\* C31: after every run of filterTable the no-results message is in the
\* document iff no row passes the current search and column filters, whatever
\* the sort state, the pagination state and the number of empty results in a
\* row; the document never holds more than one message element.
C31_MessageIffNoRow ==
    /\ noResults <=> C31_Passing = {}
    /\ messages = IF C31_Passing = {} THEN 1 ELSE 0

\* A sorted, paginated table, a column filter set and a search that no row
\* passes: the message is shown.
C31_Witness ==
    /\ noResults
    /\ cache.rowData # <<>>
    /\ SortActive(sortState)
    /\ paginationState.enabled
    /\ activeFilters.search = sZz
    /\ DOMAIN activeFilters.columns # {}

\* ---- C32 ---------------------------------------------------------------

\* C32: in every reachable state, also one reached through the link of the
\* page, every value of every active column filter is one of the precomputed
\* cell texts of its column (cache.columnValues), and the placeholder value
\* "all" of the dropdowns is never an active filter value.
C32_ActiveValuesOccur ==
    \A c \in DOMAIN activeFilters.columns :
        \A k \in 1..Len(activeFilters.columns[c]) :
            /\ activeFilters.columns[c][k] # OptionAll
            /\ c \in DOMAIN cache.columnValues
            /\ Includes(cache.columnValues[c], activeFilters.columns[c][k])

\* The values chosen in the dropdowns are cell texts of the column: a step of
\* the "change" listener adds no other value.
C32_SelectedValuesOccur ==
    [][\A c \in DOMAIN activeFilters'.columns :
           \A v \in Range(activeFilters'.columns[c]) :
               \/ c \in DOMAIN activeFilters.columns /\ Includes(activeFilters.columns[c], v)
               \/ c \in DOMAIN cache.columnValues /\ Includes(cache.columnValues[c], v)]_vars

\* ---- C33 ---------------------------------------------------------------

\* C33: with pagination enabled, after initialization and after every
\* operation, 1 <= currentPage <= totalPages, also when the current filters
\* match no row.
C33_PageWithinPages ==
    paginationState.enabled =>
        /\ 1 <= paginationState.currentPage
        /\ paginationState.currentPage <= paginationState.totalPages

\* The same while some row passes the filters.
C33_PageWithinPagesOfRows ==
    paginationState.enabled /\ VisibleCount > 0 =>
        /\ 1 <= paginationState.currentPage
        /\ paginationState.currentPage <= paginationState.totalPages

\* The handlers never move the page beyond the pages: a page within them
\* stays within them.
C33_StaysWithinPages ==
    [][C33_PageWithinPages => C33_PageWithinPages']_vars

\* ---- C34 ---------------------------------------------------------------

\* The comparison of performSort for ascending order, on two cached rows.
C34_Cmp(a, b, columnIndex) == CompareRows(a, b, columnIndex, "asc", cache.dateColumns)

\* The cached rows with a cell in the column.
C34_WithCell(columnIndex) == {row \in CachedRows : columnIndex < Len(row.cells)}

\* C34: within one column the comparison of performSort is a consistent
\* ordering: for any three cells a, b, c of the column, cmp(a, b) <= 0 and
\* cmp(b, c) <= 0 imply cmp(a, c) <= 0, also when numeric and non-numeric
\* texts or dated and undated cells are mixed.
C34_ConsistentOrdering ==
    \A columnIndex \in 0..(cache.columnCount - 1) :
        \A a, b, c \in C34_WithCell(columnIndex) :
            C34_Cmp(a, b, columnIndex) <= 0 /\ C34_Cmp(b, c, columnIndex) <= 0
                => C34_Cmp(a, c, columnIndex) <= 0

\* After an ascending sort every adjacent pair of the filtered sequence is in
\* non-decreasing order under the comparison.
C34_AdjacentInOrder ==
    SortActive(sortState) /\ sortState.direction = "asc" =>
        \A k \in 1..(Len(cache.filteredRowData) - 1) :
            C34_Cmp(cache.rowData[cache.filteredRowData[k] + 1],
                    cache.rowData[cache.filteredRowData[k + 1] + 1],
                    sortState.columnIndex[1]) <= 0

\* ... and every pair, adjacent or not.
C34_EveryPairInOrder ==
    SortActive(sortState) /\ sortState.direction = "asc" =>
        \A j, k \in 1..Len(cache.filteredRowData) :
            j < k => C34_Cmp(cache.rowData[cache.filteredRowData[j] + 1],
                             cache.rowData[cache.filteredRowData[k] + 1],
                             sortState.columnIndex[1]) <= 0

\* ---- C35 ---------------------------------------------------------------

\* No clipboard write is in flight and no reset timer is running: nothing is
\* left that would change the copy-link button.
C35_Settled == clipboard.writes = <<>> /\ copyButton.timers = <<>>

\* C35: after any sequence of clicks on the copy-link button and any
\* interleaving of the resolutions of the clipboard promises and of the
\* 2-second reset timers, the button shows its original label again and is
\* enabled; it is never left showing "Copied!".  Once every promise has
\* settled and every timer has run, the button is as the markup made it.
C35_FeedbackIsTransient ==
    C35_Settled => copyButton.label = LinkLabel /\ ~copyButton.disabled

\* The button is never left disabled.
C35_EnabledAgain == C35_Settled => ~copyButton.disabled

\* ---- C36 ---------------------------------------------------------------

\* The rows of the cache, in the order of the cache, that pass the filters.
C36_PassingInOrder ==
    LET Passing == SelectSeq(cache.rowData, LAMBDA row : row \in C31_Passing)
    IN  [k \in 1..Len(Passing) |-> Passing[k].originalIndex]

\* ... stably sorted by the current sort state, when there is one.
C36_FilteredThenSorted ==
    IF SortActive(sortState)
    THEN performSort(C36_PassingInOrder, cache.rowData, sortState.columnIndex[1],
                     sortState.direction, cache.dateColumns)
    ELSE C36_PassingInOrder

C37_Row(k) == cache.rowData[cache.filteredRowData[k] + 1]

\* Two rows have the same sort key in the column: the same date value in a
\* date column when both cells are dated, else the same numeric value when
\* both have one, else the same text.
C37_SameKey(a, b, columnIndex) ==
    LET Cells(aCell, bCell) ==
            IF /\ columnIndex \in cache.dateColumns
               /\ aCell.dateValue # Null
               /\ bCell.dateValue # Null
            THEN aCell.dateValue = bCell.dateValue
            ELSE IF aCell.numericValue # Null /\ bCell.numericValue # Null
            THEN aCell.numericValue = bCell.numericValue
            ELSE aCell.text = bCell.text
    IN  /\ columnIndex < Len(a.cells)
        /\ columnIndex < Len(b.cells)
        /\ Cells(a.cells[columnIndex + 1], b.cells[columnIndex + 1])

\* The pairs of positions of the filtered sequence whose rows have the same
\* sort key in the sorted column.
C37_Ties ==
    {p \in (1..Len(cache.filteredRowData)) \X (1..Len(cache.filteredRowData)) :
        /\ p[1] < p[2]
        /\ C37_SameKey(C37_Row(p[1]), C37_Row(p[2]), sortState.columnIndex[1])}

\* The filtered sequence read from its end.
C37_Reversed ==
    [k \in 1..Len(cache.filteredRowData) |->
        cache.filteredRowData[Len(cache.filteredRowData) + 1 - k]]

\* C37: in the ascending and in the descending result, rows with the same
\* sort key in the sorted column stand in ascending originalIndex order; with
\* such rows the descending result is not the ascending result reversed.
C37_TiesKeepOriginalOrder ==
    SortActive(sortState) =>
        /\ \A p \in C37_Ties : cache.filteredRowData[p[1]] < cache.filteredRowData[p[2]]
        /\ sortState.direction = "desc" /\ C37_Ties # {} =>
               C37_Reversed # performSort(C36_PassingInOrder, cache.rowData,
                                          sortState.columnIndex[1], "asc", cache.dateColumns)

\* A descending sort of the date column with all rows shown: the two rows of
\* each date are a tie of different texts.
C37_Witness ==
    /\ sortState = [columnIndex |-> Some(0), direction |-> "desc"]
    /\ Len(cache.filteredRowData) = 4
    /\ Cardinality(C37_Ties) = 2
    /\ \E p \in C37_Ties :
           C37_Row(p[1]).cells[1].text # C37_Row(p[2]).cells[1].text

\* ---- C38 ---------------------------------------------------------------

\* C38: in every reachable state each entry of activeFilters.columns is a
\* non-empty list without duplicate values: a value that is already active is
\* not added a second time by the dropdown or by the link of the page, and
\* the removal of the last value of a column removes the column's entry.
C38_EntriesAreSets ==
    \A c \in DOMAIN activeFilters.columns :
        /\ Len(activeFilters.columns[c]) > 0
        /\ \A j, k \in 1..Len(activeFilters.columns[c]) :
               activeFilters.columns[c][j] = activeFilters.columns[c][k] => j = k

\* Choosing a value that is already active leaves the column filters as they
\* are, and clearing the only value of a column leaves the column no entry.
C38_ReselectAndLastValue ==
    [][/\ \A k \in 1..Len(columnFilters) :
              \A value \in Range(columnFilters[k].options) :
                  /\ ColumnSelect(columnFilters[k], value)
                  /\ columnFilters[k].columnIndex \in DOMAIN activeFilters.columns
                  /\ Includes(activeFilters.columns[columnFilters[k].columnIndex], value)
                  => activeFilters' = activeFilters
       /\ \A k \in 1..Len(columnFilters) :
              \A value \in PillValues(columnFilters[k].columnIndex) :
                  /\ clearColumnFilter(columnFilters[k].columnIndex, value)
                  /\ columnFilters[k].columnIndex \in DOMAIN activeFilters.columns
                  /\ activeFilters.columns[columnFilters[k].columnIndex] = <<value>>
                  => columnFilters[k].columnIndex \notin DOMAIN activeFilters'.columns]_vars

\* On the page whose link named one value of the department twice, that value
\* is the only one of its column, and the year column, whose only value was
\* removed, has no entry.
C38_Witness ==
    /\ config.locationSearch = RepeatedValueLink
    /\ DOMAIN activeFilters.columns = {1}
    /\ activeFilters.columns[1] = <<sIT>>

====
